---- MODULE Spec2Model ----
(***************************************************************************)
(* doStuff browser client: the Run Controller (ChallengePage) with the     *)
(* remote run service and local storage, the terminal actions of the       *)
(* summary view (SummaryPage), and the Feed Controller (FeedPage) with its *)
(* like toggle.                                                            *)
(*                                                                         *)
(* Time is counted in whole seconds.  A run record holds, in place of the   *)
(* timestamp pending_started_at, the seconds elapsed since it (Date.now()  *)
(* minus pending_started_at), which grows as time passes and is cut off at *)
(* MaxElapsed, a value past every time limit of the catalog: from there on *)
(* the level is expired whatever the exact age.  An awaited fetch is one   *)
(* pc value: the handler sits there until the action that models the       *)
(* response runs the handler's code up to its next await.  The run service *)
(* answers the requests of this client in the order they were sent.  The   *)
(* browser learns a run id from POST /runs alone and keeps it in local     *)
(* storage alone: once init has removed an id from storage no request can  *)
(* name that run again, and the model stops tracking its record.           *)
(***************************************************************************)
EXTENDS Integers, Sequences, FiniteSets, TLC

\* ------------------------------------------------------------------ bounds
MaxElapsed == 3
MaxRuns == 3
MaxFailures == 2
NumLevels == 2
MaxFeed == 6
MaxLikeReqs == 2
MaxOtherLikes == 1
MaxUrls == 2
\* comments posted per public run
MaxComments == 2
\* characters typed into the comment input
MaxInput == 2
\* feed cards with video proof, and pages of a carousel
VideoCards == 2
NumPages == 2
\* steps of the run on the summary page, and set-cover requests in flight
MaxSteps == 3
MaxCoverReqs == 2

\* --------------------------------------------------------------- constants
MAX_SKIPS == 1
INITIAL_BATCH == 3
INCREMENT_BATCH == 3

NoTime == 0 - 1

VARIABLES
    \* localStorage
    ls_user_id, ls_current_run_id, ls_last_run_id,
    \* remote run service: run id -> run record
    runs,
    \* remote run service, level catalog: level id -> seconds_limit, 0 when
    \* the level has none (null)
    seconds_limit,
    \* ChallengePage component state
    page, loading, levels, runId, challenge, timeLeft, skipsUsed,
    showUploadStep, file,
    \* object URLs created for previews and not revoked
    objectUrls,
    \* the async handler in progress: which one, where it awaits, its rid
    handler, pc, rid,
    \* a set-proof-state request sent by handleDone and not yet answered
    proofReq,
    \* failed requests so far
    fails,
    \* history: finalize side effects per run
    finalized,
    \* remote feed service: public runs posted, the viewer's like and the
    \* likes of other users per public run
    posted, srvLiked, srvOthers,
    \* FeedPage component state
    viewerId, items, loadingInitial, loadingMore, offset, hasMore,
    visibleIndex, initialLoadRef,
    \* the GET /public-runs request in flight, and how many of them the
    \* mounted page has sent and not seen resolved
    feedReq, feedInFlight,
    \* the like requests in flight
    likeReqs,
    \* history: per public run, the values shown before the first of the
    \* toggles in flight, and whether a toggle has succeeded since
    likeGhost,
    \* remote comment service: public run id -> number of comments
    srvComments,
    \* FeedPage's activeCommentsRunId: the run whose sheet is open, or 0
    sheetRunId,
    \* CommentsSheet component state; a comment is its id
    comments, input, submitting,
    \* the POST comment request in flight, and the GET comments request
    commentReq, commentsReq,
    \* where the feed is scrolled to, and the number of cards the current
    \* intersection observer was created for
    scrollPos, observed,
    \* RunCarousel of each feed card with video proof: the centered page,
    \* which videos play (not paused), muteMap, the refs of the
    \* press-and-hold gesture, and the dependencies the autoplay effect
    \* last ran with
    selectedIndex, videoPlaying, muteMap, holdTimeoutRef, holdActiveRef,
    suppressClickRef, effectDeps,
    \* SummaryPage, cover photo: the run id and step list of the page, its
    \* defaultCoverAttempted ref, the set-cover requests in flight, and the
    \* cover step the server holds (0: none)
    sumRunId, steps, defaultCoverAttempted, coverReqs, srvCover

storageVars == <<ls_user_id, ls_current_run_id, ls_last_run_id>>
clientVars == <<page, loading, levels, runId, challenge, timeLeft, skipsUsed,
                showUploadStep, file, objectUrls>>
asyncVars == <<handler, pc, rid>>
runVars == <<storageVars, runs, seconds_limit, clientVars, asyncVars,
             proofReq, fails, finalized>>

\* the part of runVars the feed page leaves alone
runOnlyVars == <<ls_current_run_id, ls_last_run_id, runs, seconds_limit,
                 loading, levels,
                 runId, challenge, timeLeft, skipsUsed, showUploadStep, file,
                 objectUrls, asyncVars, proofReq, finalized>>

feedSrvVars == <<posted, srvLiked, srvOthers>>
feedClientVars == <<viewerId, items, loadingInitial, loadingMore, offset,
                    hasMore, visibleIndex, initialLoadRef, feedReq,
                    feedInFlight>>
likeVars == <<likeReqs, likeGhost>>
feedVars == <<feedSrvVars, feedClientVars, likeVars>>

\* the comments sheet of the feed page
sheetVars == <<srvComments, sheetRunId, comments, input, submitting,
               commentReq, commentsReq>>

\* the components that have a specification of their own
\* the intersection observer of the feed page
observerVars == <<scrollPos, observed>>

\* the carousels of the feed cards
holdVars == <<holdTimeoutRef, holdActiveRef, suppressClickRef>>
carouselVars == <<selectedIndex, videoPlaying, muteMap, holdVars, effectDeps>>

\* the cover photo of the summary page
coverVars == <<sumRunId, steps, defaultCoverAttempted, coverReqs, srvCover>>

widgetVars == <<sheetVars, observerVars, carouselVars, coverVars>>

vars == <<runVars, feedVars, widgetVars>>

RunIds == 1..MaxRuns
LevelIds == 1..NumLevels

\* ---------------------------------------------------------- level catalog
\* the catalog served by GET /levels: every level has a seconds_limit
Catalog == [l \in LevelIds |-> IF l = 1 THEN 2 ELSE 1]

\* the catalogs in which a level may have no seconds_limit
Catalogs == [LevelIds -> 0..(MaxElapsed - 1)]

\* seconds_limit of a level of the catalog
SecondsLimit(l) == seconds_limit[l]

\* ------------------------------------------------------ remote run service
NoRun == [exists |-> FALSE, finished |-> FALSE, pending |-> 0,
          pendingAge |-> NoTime, proofPending |-> FALSE, skips |-> 0,
          steps |-> <<>>]

\* the record of a run whose id the browser has removed from storage
Unreachable == [NoRun EXCEPT !.exists = TRUE]

\* localStorage.removeItem of the one key that held id
Forget(id, otherKey) ==
    IF id = 0 \/ id = otherKey THEN runs ELSE [runs EXCEPT ![id] = Unreachable]

PendingTimeLimit(run) == IF run.pending = 0 THEN 0 ELSE SecondsLimit(run.pending)

\* POST /runs
SrvCreate == [exists |-> TRUE, finished |-> FALSE, pending |-> 1,
              pendingAge |-> 0, proofPending |-> FALSE, skips |-> 0,
              steps |-> <<>>]

\* POST /runs/{id}/submit-step
SrvSubmit(run, body) ==
    IF ~run.exists \/ run.finished \/ run.pending = 0 THEN run
    ELSE LET nxt == IF run.pending < NumLevels THEN run.pending + 1 ELSE 0
             st == [level |-> run.pending, completed |-> body.completed,
                    skippedWhole |-> body.skipped_whole,
                    proofUrl |-> body.proof_url]
         IN [run EXCEPT !.steps = Append(@, st),
                        !.skips = IF body.skipped_whole THEN @ + 1 ELSE @,
                        !.pending = nxt,
                        !.finished = (nxt = 0),
                        !.pendingAge = IF nxt = 0 THEN NoTime ELSE 0,
                        !.proofPending = FALSE]

\* POST /runs/{id}/finish
SrvFinish(run) ==
    IF ~run.exists \/ run.finished THEN run
    ELSE [run EXCEPT !.finished = TRUE, !.pending = 0, !.pendingAge = NoTime,
                     !.proofPending = FALSE]

\* POST /runs/{id}/set-proof-state {proof_pending: true}
SrvSetProof(run) ==
    IF run.exists /\ ~run.finished /\ run.pending # 0
    THEN [run EXCEPT !.proofPending = TRUE] ELSE run

\* ------------------------------------------------------------- helpers
\* elapsed is Date.now() - new Date(startISO), in seconds; NoTime: no startISO
computeRemaining(elapsed, limitSec) ==
    IF elapsed = NoTime \/ limitSec = 0 THEN 0
    ELSE limitSec - elapsed

\* one second passes: every pending level is one second older
OneSecondOlder(run) ==
    IF run.pendingAge = NoTime \/ run.pendingAge >= MaxElapsed THEN run
    ELSE [run EXCEPT !.pendingAge = @ + 1]

Elapse == [r \in RunIds |-> OneSecondOlder(runs[r])]

\* clearProofPreview: the preview's object URL is revoked when there is one
clearProofPreview ==
    /\ objectUrls' = IF file THEN objectUrls - 1 ELSE objectUrls
    /\ file' = FALSE

\* The state a handler's closure holds.  init, and what init calls, run in
\* the closure of the first render: runId is null and levels is empty.
ClosureRunId == IF handler = "init" THEN 0 ELSE runId
ClosureLevels == IF handler = "init" THEN FALSE ELSE levels

\* what the page renders
TimerStep == page = "challenge" /\ ~loading /\ challenge # 0 /\ ~showUploadStep
ProofStep == page = "challenge" /\ ~loading /\ challenge # 0 /\ showUploadStep

\* the request slot with no request in it
NoReq == [limit |-> 0, offset |-> 0]

FeedRunIds == 1..MaxFeed

NoGhost == [set |-> FALSE, liked |-> FALSE, count |-> 0, clean |-> TRUE]

\* FeedPage's useState initial values
FeedFresh ==
    /\ viewerId = 0 /\ items = <<>>
    /\ loadingInitial = TRUE /\ loadingMore = FALSE
    /\ offset = 0 /\ hasMore = TRUE
    /\ visibleIndex = 0 /\ initialLoadRef = FALSE
    /\ feedReq = NoReq /\ feedInFlight = 0

FeedInit ==
    /\ posted \in {0, 1}
    /\ srvLiked = [r \in FeedRunIds |-> FALSE]
    /\ srvOthers = [r \in FeedRunIds |-> 0]
    /\ FeedFresh
    /\ likeReqs = <<>>
    /\ likeGhost = [r \in FeedRunIds |-> NoGhost]

\* the request slot with no comment in it
NoCommentReq == [run_id |-> 0, content |-> <<>>, stale |-> FALSE]

\* no comments on the server, no sheet open
SheetInit ==
    /\ srvComments = [r \in FeedRunIds |-> 0]
    /\ sheetRunId = 0 /\ comments = <<>> /\ input = <<>>
    /\ submitting = FALSE
    /\ commentReq = NoCommentReq /\ commentsReq = 0

\* the feed cards whose steps have video proof (every other card; the rest
\* have photos), and the pages of a carousel
VideoCardIds == {c \in 0..(2 * VideoCards - 2) : c % 2 = 0}
Pages == 0..(NumPages - 1)
VideoIds == VideoCardIds \X Pages

\* no carousel mounted yet
CarouselInit ==
    /\ selectedIndex = [c \in VideoCardIds |-> 0]
    /\ videoPlaying = [c \in VideoCardIds |-> [idx \in Pages |-> FALSE]]
    /\ muteMap = [c \in VideoCardIds |-> [idx \in Pages |-> TRUE]]
    /\ holdTimeoutRef = {} /\ holdActiveRef = {} /\ suppressClickRef = {}
    /\ effectDeps = [c \in VideoCardIds |-> <<>>]

\* the summary page not yet loaded
CoverInit ==
    /\ sumRunId = 0 /\ steps = <<>>
    /\ defaultCoverAttempted = FALSE
    /\ coverReqs = <<>> /\ srvCover = 0

\* nothing stored, no run on the server, the page not yet opened
Construction ==
    /\ FeedInit
    /\ SheetInit
    /\ CarouselInit
    /\ CoverInit
    /\ scrollPos = 0 /\ observed = 0
    /\ ls_user_id = 0 /\ ls_current_run_id = 0 /\ ls_last_run_id = 0
    /\ runs = [r \in RunIds |-> NoRun]
    /\ page = "home" /\ loading = TRUE /\ levels = FALSE /\ runId = 0
    /\ challenge = 0 /\ timeLeft = 0 /\ skipsUsed = 0
    /\ showUploadStep = FALSE /\ file = FALSE /\ objectUrls = 0
    /\ handler = "none" /\ pc = "idle" /\ rid = 0
    /\ proofReq = 0
    /\ fails = 0
    /\ finalized = [r \in RunIds |-> 0]

Init == Construction /\ seconds_limit = Catalog

\* the same, with any catalog
InitAnyCatalog == Construction /\ seconds_limit \in Catalogs

\* --------------------------------------------------------------- identity
\* crypto.randomUUID(): an id that differs from the one in storage
randomUUID == IF ls_user_id = 1 THEN 2 ELSE 1

\* mutant: a new id is generated and stored at every resolution
getOrCreateIdentity_Regenerate == randomUUID

\* localStorage.getItem("user_id"), generated and stored when missing
getOrCreateIdentity == IF ls_user_id = 0 THEN randomUUID ELSE ls_user_id

\* The page is opened or reloaded: a fresh component, init runs to its first
\* await (GET /levels).  The handler of the page that was left is abandoned.
Mount ==
    /\ ls_user_id' = getOrCreateIdentity
    /\ page' = "challenge" /\ loading' = TRUE /\ levels' = FALSE
    /\ runId' = 0 /\ challenge' = 0 /\ timeLeft' = 0 /\ skipsUsed' = 0
    /\ showUploadStep' = FALSE /\ file' = FALSE /\ objectUrls' = 0
    /\ handler' = "init" /\ pc' = "init_levels" /\ rid' = 0
    /\ UNCHANGED <<ls_current_run_id, ls_last_run_id, runs, proofReq,
                   fails, finalized>>
    /\ UNCHANGED <<seconds_limit, feedVars, widgetVars>>

\* The cleanup of the effect with no dependencies: `preview` is the value of
\* the first render, which is null, so nothing is revoked.
unmountCleanup == objectUrls' = objectUrls

\* The user leaves a page that shows a step by the browser's Back button:
\* the router unmounts ChallengePage in the same document, its effects'
\* cleanups run and its state is dropped.
Unmount ==
    /\ page = "challenge" /\ pc = "idle" /\ ~loading /\ challenge # 0
    /\ proofReq = 0
    /\ unmountCleanup
    /\ page' = "home" /\ loading' = TRUE /\ levels' = FALSE
    /\ runId' = 0 /\ challenge' = 0 /\ timeLeft' = 0 /\ skipsUsed' = 0
    /\ showUploadStep' = FALSE /\ file' = FALSE
    /\ rid' = 0
    /\ UNCHANGED <<storageVars, runs, handler, pc, proofReq, fails, finalized>>
    /\ UNCHANGED <<seconds_limit, feedVars, widgetVars>>

\* ------------------------------------------------------------- finalize
\* finalizeRun(completedId): completedId ?? runId, the runId of the closure
finalizeRun(completedId) ==
    LET targetId == IF completedId # 0 THEN completedId ELSE ClosureRunId IN
    IF targetId = 0
    THEN UNCHANGED <<ls_current_run_id, ls_last_run_id, finalized>>
    ELSE /\ ls_last_run_id' = targetId
         /\ ls_current_run_id' = 0
         /\ finalized' = [finalized EXCEPT ![targetId] = IF @ < 2 THEN @ + 1 ELSE @]

\* the handler in progress returns
Return == handler' = "none" /\ pc' = "idle"

\* The request the handler awaits can be answered: earlier requests of this
\* client have been answered.
Answerable(at) == pc = at /\ proofReq = 0

\* `await fetch(.../finish)` resolves with the run finished
FinishServed ==
    /\ runs' = [runs EXCEPT ![rid] = SrvFinish(@)]
    /\ fails' = fails

\* `await fetch(.../finish)` resolves with an error status: the run service
\* left the run as it was.  fetch resolves all the same, and the handlers do
\* not read the response.
FinishRefused ==
    /\ fails < MaxFailures
    /\ fails' = fails + 1
    /\ runs' = runs

\* mutant: the budget test is off by one
TimeoutNoSkipsLeft_OffByOne(currentSkipsUsed) == currentSkipsUsed > MAX_SKIPS

\* --------------------------------------------------------- handleTimeout
TimeoutNoSkipsLeft(currentSkipsUsed) == currentSkipsUsed >= MAX_SKIPS


\* mutant: a timeout always spends a skip
handleTimeoutStart_AlwaysSkip(currentSkipsUsed) ==
    /\ loading' = TRUE
    /\ pc' = "to_submit"

\* handleTimeout up to its first await: POST finish or POST submit-step
handleTimeoutStart(currentSkipsUsed) ==
    /\ loading' = TRUE
    /\ pc' = IF TimeoutNoSkipsLeft(currentSkipsUsed) THEN "to_finish" ELSE "to_submit"

\* ------------------------------------------------------------------ init
\* mutant: init creates a run whatever current_run_id holds
initResolveCurrent_AlwaysCreate == pc' = "init_create" /\ rid' = 0

\* init after its last_run_id check: read current_run_id; fetch it, or
\* create a run
initResolveCurrent ==
    IF ls_current_run_id # 0
    THEN pc' = "init_cur" /\ rid' = ls_current_run_id
    ELSE pc' = "init_create" /\ rid' = 0

\* mutant: init never treats the level as timed out
InitExpired_Never(remaining) == FALSE

InitExpired(remaining) == remaining <= 0

\* init from an unfinished run on: skips, challenge, proof step or timer
initDerive(run) ==
    LET pending == run.pending
        remaining == computeRemaining(run.pendingAge, PendingTimeLimit(run))
    IN
    /\ skipsUsed' = run.skips
    /\ challenge' = pending
    /\ file' = file /\ objectUrls' = objectUrls
    /\ IF pending = 0
       THEN /\ showUploadStep' = FALSE /\ timeLeft' = 0 /\ loading' = FALSE
            /\ Return
       ELSE IF run.proofPending
       THEN /\ showUploadStep' = TRUE /\ timeLeft' = 0 /\ loading' = FALSE
            /\ Return
       ELSE IF InitExpired(remaining)
       THEN /\ handleTimeoutStart(run.skips)
            /\ handler' = handler
            /\ UNCHANGED <<showUploadStep, timeLeft>>
       ELSE /\ showUploadStep' = FALSE /\ timeLeft' = remaining
            /\ loading' = FALSE
            /\ Return

\* init sees the run finished: the finished screen, and finalize
initFinished(run, storedRun) ==
    /\ runId' = storedRun
    /\ skipsUsed' = run.skips
    /\ challenge' = 0 /\ showUploadStep' = FALSE /\ timeLeft' = 0
    /\ finalizeRun(storedRun)
    /\ loading' = FALSE
    /\ Return

\* GET /levels answered
InitLevels ==
    /\ Answerable("init_levels")
    /\ levels' = TRUE
    /\ IF ls_last_run_id # 0
       THEN pc' = "init_last" /\ rid' = ls_last_run_id
       ELSE initResolveCurrent
    /\ UNCHANGED <<storageVars, runs, page, loading, runId, challenge,
                   timeLeft, skipsUsed, showUploadStep, file, objectUrls, handler,
                   proofReq, fails, finalized>>
    /\ UNCHANGED <<seconds_limit, feedVars, widgetVars>>

\* mutant: init never takes the stored last run for finished
completedRunFinished_Never(isNull, completedRun) == FALSE

\* completedRun?.finished_at
completedRunFinished(isNull, completedRun) == ~isNull /\ completedRun.finished

\* fetchRunState(last_run_id) answered, or failed (it then returns null)
InitLast ==
    /\ Answerable("init_last")
    /\ \E failed \in BOOLEAN :
        LET completedRun == runs[rid]
            isNull == failed \/ ~completedRun.exists
        IN
        /\ failed => fails < MaxFailures
        /\ fails' = IF failed THEN fails + 1 ELSE fails
        /\ IF completedRunFinished(isNull, completedRun)
           THEN /\ runId' = rid
                /\ skipsUsed' = completedRun.skips
                /\ challenge' = 0 /\ showUploadStep' = FALSE /\ timeLeft' = 0
                /\ loading' = FALSE
                /\ page' = "summary"
                /\ Return
                /\ UNCHANGED <<rid, ls_last_run_id, runs>>
           ELSE /\ ls_last_run_id' = IF isNull THEN 0 ELSE ls_last_run_id
                /\ runs' = IF isNull THEN Forget(rid, ls_current_run_id) ELSE runs
                /\ initResolveCurrent
                /\ UNCHANGED <<runId, skipsUsed, challenge, showUploadStep,
                               timeLeft, loading, page, handler>>
    /\ UNCHANGED <<ls_user_id, ls_current_run_id, levels, file, objectUrls,
                   proofReq, finalized>>
    /\ UNCHANGED <<seconds_limit, feedVars, widgetVars>>

\* mutant: init adopts the stored id although its fetch returned null
initDiscardStored_Adopts(storedRun) ==
    /\ ls_current_run_id' = ls_current_run_id
    /\ runs' = runs
    /\ pc' = "init_get" /\ rid' = storedRun
    /\ runId' = storedRun

\* init, `if (!run)`: current_run_id is removed and storedRun emptied, so
\* that POST /runs follows
initDiscardStored(storedRun) ==
    /\ ls_current_run_id' = 0
    /\ runs' = Forget(storedRun, ls_last_run_id)
    /\ pc' = "init_create" /\ rid' = 0
    /\ runId' = runId

\* fetchRunState(current_run_id) answered, or failed (it then returns null)
InitCur ==
    /\ Answerable("init_cur")
    /\ \E failed \in BOOLEAN :
        LET run == runs[rid]
            isNull == failed \/ ~run.exists
        IN
        /\ failed => fails < MaxFailures
        /\ fails' = IF failed THEN fails + 1 ELSE fails
        /\ IF isNull
           THEN /\ initDiscardStored(rid)
                /\ UNCHANGED <<ls_last_run_id, finalized, skipsUsed,
                               challenge, showUploadStep, timeLeft, loading,
                               handler, file, objectUrls>>
           ELSE IF run.finished
           THEN /\ initFinished(run, rid)
                /\ UNCHANGED <<rid, file, objectUrls, runs>>
           ELSE /\ runId' = rid
                /\ initDerive(run)
                /\ UNCHANGED <<rid, ls_current_run_id, ls_last_run_id,
                               finalized, runs>>
    /\ UNCHANGED <<ls_user_id, page, levels, proofReq>>
    /\ UNCHANGED <<seconds_limit, feedVars, widgetVars>>

\* POST /runs answered: the new id is stored, GET /runs/{id} is sent
InitCreate ==
    /\ Answerable("init_create")
    /\ \E id \in RunIds :
        /\ ~runs[id].exists
        /\ \A j \in RunIds : j < id => runs[j].exists
        /\ runs' = [runs EXCEPT ![id] = SrvCreate]
        /\ ls_current_run_id' = id
        /\ runId' = id
        /\ rid' = id
    /\ pc' = "init_get"
    /\ UNCHANGED <<ls_user_id, ls_last_run_id, page, loading, levels,
                   challenge, timeLeft, skipsUsed, showUploadStep, file, objectUrls,
                   handler, proofReq, fails, finalized>>
    /\ UNCHANGED <<seconds_limit, feedVars, widgetVars>>

\* GET /runs/{id} of the created run answered
InitGet ==
    /\ Answerable("init_get")
    /\ LET run == runs[rid] IN
       IF run.finished
       THEN /\ initFinished(run, rid)
            /\ file' = file /\ objectUrls' = objectUrls
       ELSE /\ runId' = runId
            /\ initDerive(run)
            /\ UNCHANGED <<ls_current_run_id, ls_last_run_id, finalized>>
    /\ UNCHANGED <<ls_user_id, runs, page, levels, rid, proofReq, fails>>
    /\ UNCHANGED <<seconds_limit, feedVars, widgetVars>>

\* ----------------------------------------------------------- clock, timer
\* what the timer effect does after a render
TimerRuns == TimerStep /\ timeLeft > 0

\* mutant: the timer effect does not return on the proof step
TimeoutDue_DuringProof ==
    page = "challenge" /\ ~loading /\ challenge # 0 /\ timeLeft <= 0 /\ runId # 0

TimeoutDue == TimerStep /\ timeLeft <= 0 /\ runId # 0

\* a second passes and the interval callback runs: setTimeLeft(t => t - 1)
Tick ==
    /\ TimerRuns
    /\ pc = "idle"
    /\ runs' = Elapse
    /\ timeLeft' = timeLeft - 1
    /\ UNCHANGED <<storageVars, page, loading, levels, runId, challenge,
                   skipsUsed, showUploadStep, file, objectUrls, asyncVars, proofReq, fails,
                   finalized>>
    /\ UNCHANGED <<seconds_limit, feedVars, widgetVars>>

\* a second passes with no interval callback: no timer is running, or the
\* tab is in the background and its timers are suspended
TimePasses ==
    /\ runs' = Elapse
    /\ runs' # runs
    /\ UNCHANGED <<storageVars, clientVars, asyncVars, proofReq, fails,
                   finalized>>
    /\ UNCHANGED <<seconds_limit, feedVars, widgetVars>>

\* the timer effect with timeLeft <= 0: handleTimeout(runId, challenge, skipsUsed)
TimerTimeout ==
    /\ TimeoutDue
    /\ pc = "idle"
    /\ handler' = "timeout"
    /\ rid' = runId
    /\ handleTimeoutStart(skipsUsed)
    /\ UNCHANGED <<storageVars, runs, page, levels, runId, challenge,
                   timeLeft, skipsUsed, showUploadStep, file, objectUrls, proofReq, fails,
                   finalized>>
    /\ UNCHANGED <<seconds_limit, feedVars, widgetVars>>

\* handleTimeout, no skips left: POST finish answered
handleTimeoutFinished ==
    /\ clearProofPreview
    /\ challenge' = 0
    /\ finalizeRun(0)
    /\ loading' = FALSE
    /\ Return
    /\ UNCHANGED <<ls_user_id, page, levels, runId, timeLeft, skipsUsed,
                   showUploadStep, rid, proofReq>>
    /\ UNCHANGED <<seconds_limit, feedVars, widgetVars>>

TimeoutFinish == Answerable("to_finish") /\ FinishServed /\ handleTimeoutFinished

\* handleTimeout, no skips left: POST finish answered with an error status
TimeoutFinishRefused ==
    Answerable("to_finish") /\ FinishRefused /\ handleTimeoutFinished

\* the step handleTimeout submits
TimeoutStepBody == [completed |-> FALSE, skipped_whole |-> TRUE, proof_url |-> FALSE]

\* handleTimeout, a skip left: POST submit-step answered, loadNextRunState
\* sends GET /runs/{id}
TimeoutSubmit ==
    /\ Answerable("to_submit")
    /\ runs' = [runs EXCEPT ![rid] = SrvSubmit(@, TimeoutStepBody)]
    /\ loading' = TRUE
    /\ pc' = "lns_get"
    /\ UNCHANGED <<storageVars, page, levels, runId, challenge, timeLeft,
                   skipsUsed, showUploadStep, file, objectUrls, handler, rid, proofReq,
                   fails, finalized>>
    /\ UNCHANGED <<seconds_limit, feedVars, widgetVars>>

\* ------------------------------------------------------ loadNextRunState
\* the level loadNextRunState finds for pending_level_id: the embedded
\* pending_level, else levels.find in the closure's catalog
lnsPending(run, embedded) ==
    IF run.pending # 0 /\ (embedded \/ ClosureLevels) THEN run.pending ELSE 0

lnsTimeLeft(remain) == IF remain > 0 THEN remain ELSE 1

\* GET /runs/{id} of loadNextRunState answered
LoadNextRunState ==
    /\ Answerable("lns_get")
    /\ \E embedded \in BOOLEAN :
        LET run == runs[rid]
            pending == lnsPending(run, embedded)
            remain == computeRemaining(run.pendingAge, PendingTimeLimit(run))
        IN
        /\ skipsUsed' = run.skips
        /\ clearProofPreview
        /\ challenge' = IF run.finished THEN 0 ELSE pending
        /\ IF run.finished
           THEN /\ finalizeRun(0)
                /\ UNCHANGED <<showUploadStep, timeLeft>>
           ELSE /\ UNCHANGED <<ls_current_run_id, ls_last_run_id, finalized>>
                /\ IF pending = 0
                   THEN UNCHANGED <<showUploadStep, timeLeft>>
                   ELSE IF run.proofPending
                   THEN showUploadStep' = TRUE /\ timeLeft' = 0
                   ELSE /\ showUploadStep' = FALSE
                        /\ timeLeft' = lnsTimeLeft(remain)
    /\ loading' = FALSE
    /\ Return
    /\ UNCHANGED <<ls_user_id, runs, page, levels, runId, rid, proofReq,
                   fails>>
    /\ UNCHANGED <<seconds_limit, feedVars, widgetVars>>

\* ---------------------------------------------------------- user actions
\* a click handler can run: the page shows its button and no effect is due
CanClickTimerStep == TimerStep /\ ~TimeoutDue /\ pc = "idle" /\ runId # 0
CanClickProofStep == ProofStep /\ pc = "idle" /\ runId # 0

\* "Give up & end run": POST finish is sent
GiveUp ==
    /\ CanClickTimerStep
    /\ loading' = TRUE
    /\ handler' = "giveUp" /\ pc' = "gu_finish" /\ rid' = runId
    /\ UNCHANGED <<storageVars, runs, page, levels, runId, challenge,
                   timeLeft, skipsUsed, showUploadStep, file, objectUrls, proofReq, fails,
                   finalized>>
    /\ UNCHANGED <<seconds_limit, feedVars, widgetVars>>

\* handleGiveUp: POST finish answered
handleGiveUpFinished ==
    /\ clearProofPreview
    /\ finalizeRun(0)
    /\ challenge' = 0
    /\ loading' = FALSE
    /\ Return
    /\ UNCHANGED <<ls_user_id, page, levels, runId, timeLeft, skipsUsed,
                   showUploadStep, rid, proofReq>>
    /\ UNCHANGED <<seconds_limit, feedVars, widgetVars>>

GiveUpFinish == Answerable("gu_finish") /\ FinishServed /\ handleGiveUpFinished

\* handleGiveUp: POST finish answered with an error status
GiveUpFinishRefused ==
    Answerable("gu_finish") /\ FinishRefused /\ handleGiveUpFinished

\* "DONE": the proof step, and a set-proof-state request nobody awaits
Done ==
    /\ CanClickTimerStep
    /\ showUploadStep' = TRUE
    /\ timeLeft' = 0
    /\ proofReq' = runId
    /\ UNCHANGED <<storageVars, runs, page, loading, levels, runId,
                   challenge, skipsUsed, file, objectUrls, asyncVars, fails, finalized>>
    /\ UNCHANGED <<seconds_limit, feedVars, widgetVars>>

\* the run service handles the set-proof-state request
SetProofState ==
    /\ proofReq # 0
    /\ runs' = [runs EXCEPT ![proofReq] = SrvSetProof(@)]
    /\ proofReq' = 0
    /\ UNCHANGED <<storageVars, clientVars, asyncVars, fails, finalized>>
    /\ UNCHANGED <<seconds_limit, feedVars, widgetVars>>

\* the set-proof-state request is lost: handleDone's catch ignores it
SetProofStateFails ==
    /\ proofReq # 0
    /\ fails < MaxFailures
    /\ fails' = fails + 1
    /\ proofReq' = 0
    /\ UNCHANGED <<storageVars, runs, clientVars, asyncVars, finalized>>
    /\ UNCHANGED <<seconds_limit, feedVars, widgetVars>>

SkipChallengeNoBudget == skipsUsed >= MAX_SKIPS

\* mutant: a skipped challenge is sent as completed
SkipChallengeBody_Completed == [completed |-> TRUE, skipped_whole |-> TRUE, proof_url |-> FALSE]

SkipChallengeBody == [completed |-> FALSE, skipped_whole |-> TRUE, proof_url |-> FALSE]

\* "Skip Challenge": the button is rendered while skipsUsed < MAX_SKIPS, and
\* the handler returns without a skip left; else POST submit-step is sent
SkipChallenge ==
    /\ CanClickTimerStep
    /\ skipsUsed < MAX_SKIPS
    /\ ~SkipChallengeNoBudget
    /\ loading' = TRUE
    /\ handler' = "skipChallenge" /\ pc' = "sc_submit" /\ rid' = runId
    /\ UNCHANGED <<storageVars, runs, page, levels, runId, challenge,
                   timeLeft, skipsUsed, showUploadStep, file, objectUrls, proofReq, fails,
                   finalized>>
    /\ UNCHANGED <<seconds_limit, feedVars, widgetVars>>

\* handleSkipChallenge: POST submit-step answered, loadNextRunState
SkipChallengeSubmit ==
    /\ Answerable("sc_submit")
    /\ runs' = [runs EXCEPT ![rid] = SrvSubmit(@, SkipChallengeBody)]
    /\ loading' = TRUE
    /\ pc' = "lns_get"
    /\ UNCHANGED <<storageVars, page, levels, runId, challenge, timeLeft,
                   skipsUsed, showUploadStep, file, objectUrls, handler, rid, proofReq,
                   fails, finalized>>
    /\ UNCHANGED <<seconds_limit, feedVars, widgetVars>>

\* mutant: skipping the proof is sent as a skipped challenge
SkipProofBody_SkippedWhole == [completed |-> TRUE, skipped_whole |-> TRUE, proof_url |-> FALSE]

SkipProofBody == [completed |-> TRUE, skipped_whole |-> FALSE, proof_url |-> FALSE]

\* "Skip proof": POST submit-step is sent
SkipProof ==
    /\ CanClickProofStep
    /\ loading' = TRUE
    /\ handler' = "skipProof" /\ pc' = "sp_submit" /\ rid' = runId
    /\ UNCHANGED <<storageVars, runs, page, levels, runId, challenge,
                   timeLeft, skipsUsed, showUploadStep, file, objectUrls, proofReq, fails,
                   finalized>>
    /\ UNCHANGED <<seconds_limit, feedVars, widgetVars>>

\* handleSkipProof: POST submit-step answered, loadNextRunState
SkipProofSubmit ==
    /\ Answerable("sp_submit")
    /\ runs' = [runs EXCEPT ![rid] = SrvSubmit(@, SkipProofBody)]
    /\ loading' = TRUE
    /\ pc' = "lns_get"
    /\ UNCHANGED <<storageVars, page, levels, runId, challenge, timeLeft,
                   skipsUsed, showUploadStep, file, objectUrls, handler, rid, proofReq,
                   fails, finalized>>
    /\ UNCHANGED <<seconds_limit, feedVars, widgetVars>>

\* setFile(file); setPreview(URL.createObjectURL(file))
handleFile ==
    /\ file' = TRUE
    /\ objectUrls' = objectUrls + 1

\* the file input changes: a file is staged with its preview
HandleFile ==
    /\ CanClickProofStep
    /\ objectUrls < MaxUrls
    /\ handleFile
    /\ UNCHANGED <<storageVars, runs, page, loading, levels, runId,
                   challenge, timeLeft, skipsUsed, showUploadStep, asyncVars,
                   proofReq, fails, finalized>>
    /\ UNCHANGED <<seconds_limit, feedVars, widgetVars>>

\* "Remove file": clearProofPreview
RemoveFile ==
    /\ CanClickProofStep
    /\ file
    /\ clearProofPreview
    /\ UNCHANGED <<storageVars, runs, page, loading, levels, runId,
                   challenge, timeLeft, skipsUsed, showUploadStep, asyncVars,
                   proofReq, fails, finalized>>
    /\ UNCHANGED <<seconds_limit, feedVars, widgetVars>>

\* mutant: NEXT is rendered without a preview
NextRendered_Always == TRUE

\* `preview ? <NEXT> : <></>`; preview and file are set and cleared together
NextRendered == file

\* uploadProof up to its first await: null at once when no file is staged,
\* and the caller goes on to POST submit-step; else POST /upload is sent
uploadProofStart == pc' = IF file THEN "swp_upload" ELSE "swp_submit"

\* "NEXT", rendered with a preview: handleSubmitWithProof calls uploadProof
SubmitWithProof ==
    /\ CanClickProofStep
    /\ NextRendered
    /\ loading' = TRUE
    /\ handler' = "submitWithProof" /\ uploadProofStart /\ rid' = runId
    /\ UNCHANGED <<storageVars, runs, page, levels, runId, challenge,
                   timeLeft, skipsUsed, showUploadStep, file, objectUrls, proofReq, fails,
                   finalized>>
    /\ UNCHANGED <<seconds_limit, feedVars, widgetVars>>

\* POST /upload answered with the url: POST submit-step is sent
UploadProof ==
    /\ Answerable("swp_upload")
    /\ pc' = "swp_submit"
    /\ UNCHANGED <<storageVars, runs, clientVars, handler, rid, proofReq,
                   fails, finalized>>
    /\ UNCHANGED <<seconds_limit, feedVars, widgetVars>>

\* mutant: the uploaded url is not sent
SubmitWithProofBody_NoUrl == [completed |-> TRUE, skipped_whole |-> FALSE, proof_url |-> FALSE]

SubmitWithProofBody == [completed |-> TRUE, skipped_whole |-> FALSE, proof_url |-> TRUE]

\* the body handleSubmitWithProof sends: proof_url is what uploadProof
\* returned, null when no file was staged
submitWithProofBody ==
    IF file THEN SubmitWithProofBody
    ELSE [SubmitWithProofBody EXCEPT !.proof_url = FALSE]

\* handleSubmitWithProof: POST submit-step answered, loadNextRunState
SubmitWithProofSubmit ==
    /\ Answerable("swp_submit")
    /\ runs' = [runs EXCEPT ![rid] = SrvSubmit(@, submitWithProofBody)]
    /\ loading' = TRUE
    /\ pc' = "lns_get"
    /\ UNCHANGED <<storageVars, page, levels, runId, challenge, timeLeft,
                   skipsUsed, showUploadStep, file, objectUrls, handler, rid, proofReq,
                   fails, finalized>>
    /\ UNCHANGED <<seconds_limit, feedVars, widgetVars>>

\* the effect on [loading, challenge]: no challenge and not loading
NavigateToSummary ==
    /\ page = "challenge" /\ ~loading /\ challenge = 0
    /\ page' = "summary"
    /\ UNCHANGED <<storageVars, runs, loading, levels, runId, challenge,
                   timeLeft, skipsUsed, showUploadStep, file, objectUrls, asyncVars,
                   proofReq, fails, finalized>>
    /\ UNCHANGED <<seconds_limit, feedVars, widgetVars>>

\* ------------------------------------------------------------ SummaryPage
\* load(): last_run_id ?? current_run_id
SummaryStored ==
    IF ls_last_run_id # 0 THEN ls_last_run_id ELSE ls_current_run_id

\* runId !== null && steps.length > 0, with the steps GET .../steps returns
hasSummary == SummaryStored # 0 /\ Len(runs[SummaryStored].steps) > 0

\* no handler of the summary page is in progress
SummaryIdle == page = "summary" /\ pc \notin {"sum_delete", "sum_finish"}

\* the effect on [loading, hasSummary]: nothing to show (no stored run, no
\* steps, or the load failed and its catch left steps empty): go to /feed
SummaryRedirect ==
    /\ SummaryIdle
    /\ \E failed \in BOOLEAN :
        /\ failed => fails < MaxFailures
        /\ ~failed => ~hasSummary
        /\ fails' = IF failed THEN fails + 1 ELSE fails
    /\ page' = "feed"
    /\ UNCHANGED <<storageVars, runs, loading, levels, runId, challenge,
                   timeLeft, skipsUsed, showUploadStep, file, objectUrls, asyncVars,
                   proofReq, finalized>>
    /\ UNCHANGED <<seconds_limit, feedVars, widgetVars>>

\* handleConfirmDelete: deleteRun up to its await (DELETE /runs/{id})
SummaryDelete ==
    /\ SummaryIdle /\ hasSummary
    /\ handler' = "deleteRun" /\ pc' = "sum_delete" /\ rid' = SummaryStored
    /\ UNCHANGED <<storageVars, runs, page, loading, levels, runId, challenge,
                   timeLeft, skipsUsed, showUploadStep, file, objectUrls, proofReq, fails,
                   finalized>>
    /\ UNCHANGED <<seconds_limit, feedVars, widgetVars>>

\* deleteRun after the await: both keys are removed, so no request can name
\* the runs they held again, deleted or not
deleteRunRemoveKeys ==
    /\ ls_last_run_id' = 0
    /\ ls_current_run_id' = 0
    /\ runs' = [r \in RunIds |->
                   IF r \in {ls_last_run_id, ls_current_run_id}
                   THEN Unreachable ELSE runs[r]]

\* DELETE answered, or failed (the catch logs it): keys removed, go to /feed
SummaryDeleteDone ==
    /\ Answerable("sum_delete")
    /\ \E failed \in BOOLEAN :
        /\ failed => fails < MaxFailures
        /\ fails' = IF failed THEN fails + 1 ELSE fails
    /\ deleteRunRemoveKeys
    /\ page' = "feed"
    /\ Return
    /\ UNCHANGED <<ls_user_id, loading, levels, runId, challenge, timeLeft,
                   skipsUsed, showUploadStep, file, objectUrls, rid, proofReq, finalized>>
    /\ UNCHANGED <<seconds_limit, feedVars, widgetVars>>

\* handlePost up to its last await: PATCH /runs/{id} and PATCH /users/{id}
\* (their failures are caught), then POST finish
SummaryPost ==
    /\ SummaryIdle /\ hasSummary
    /\ handler' = "handlePost" /\ pc' = "sum_finish" /\ rid' = SummaryStored
    /\ UNCHANGED <<storageVars, runs, page, loading, levels, runId, challenge,
                   timeLeft, skipsUsed, showUploadStep, file, objectUrls, proofReq, fails,
                   finalized>>
    /\ UNCHANGED <<seconds_limit, feedVars, widgetVars>>

\* POST finish answered: go to /feed; local storage is left as it is
SummaryPostDone ==
    /\ Answerable("sum_finish")
    /\ runs' = [runs EXCEPT ![rid] = SrvFinish(@)]
    /\ page' = "feed"
    /\ Return
    /\ UNCHANGED <<storageVars, loading, levels, runId, challenge, timeLeft,
                   skipsUsed, showUploadStep, file, objectUrls, rid, proofReq, fails,
                   finalized>>
    /\ UNCHANGED <<seconds_limit, feedVars, widgetVars>>

\* ----------------------------------------------------- a fetch that rejects
\* what the run service did with the request before the failure
FailedRequestEffect(applied) ==
    IF ~applied THEN runs
    ELSE CASE pc = "to_finish" -> [runs EXCEPT ![rid] = SrvFinish(@)]
           [] pc = "gu_finish" -> [runs EXCEPT ![rid] = SrvFinish(@)]
           [] pc = "to_submit" -> [runs EXCEPT ![rid] = SrvSubmit(@, TimeoutStepBody)]
           [] pc = "sc_submit" -> [runs EXCEPT ![rid] = SrvSubmit(@, SkipChallengeBody)]
           [] pc = "sp_submit" -> [runs EXCEPT ![rid] = SrvSubmit(@, SkipProofBody)]
           [] pc = "swp_submit" -> [runs EXCEPT ![rid] = SrvSubmit(@, SubmitWithProofBody)]
           [] pc = "sum_finish" -> [runs EXCEPT ![rid] = SrvFinish(@)]
           [] OTHER -> runs

\* mutant: the catch leaves the loading screen up
submitWithProofCatch_StaysLoading ==
    /\ pc' = "dead"
    /\ UNCHANGED <<loading, handler>>

\* the catch of handleSubmitWithProof: loading ends, the handler returns
submitWithProofCatch ==
    /\ loading' = FALSE
    /\ Return

\* The awaited fetch rejects (the request or its answer is lost).  Inside
\* handleSubmitWithProof's try the catch ends loading; elsewhere the
\* rejection is unhandled and the handler never resumes.
FetchRejects ==
    /\ pc \in {"init_levels", "init_create", "init_get", "to_finish",
               "to_submit", "lns_get", "gu_finish", "sc_submit", "sp_submit",
               "swp_upload", "swp_submit", "sum_finish"}
    /\ proofReq = 0
    /\ fails < MaxFailures
    /\ fails' = fails + 1
    /\ \E applied \in BOOLEAN : runs' = FailedRequestEffect(applied)
    /\ IF handler = "submitWithProof"
       THEN submitWithProofCatch
       ELSE pc' = "dead" /\ UNCHANGED <<loading, handler>>
    /\ UNCHANGED <<storageVars, page, levels, runId, challenge, timeLeft,
                   skipsUsed, showUploadStep, file, objectUrls, rid, proofReq, finalized>>
    /\ UNCHANGED <<seconds_limit, feedVars, widgetVars>>

Next ==
    \/ Mount
    \/ InitLevels
    \/ InitLast
    \/ InitCur
    \/ InitCreate
    \/ InitGet
    \/ Tick
    \/ TimePasses
    \/ TimerTimeout
    \/ TimeoutFinish
    \/ TimeoutSubmit
    \/ LoadNextRunState
    \/ GiveUp
    \/ GiveUpFinish
    \/ Done
    \/ SetProofState
    \/ SetProofStateFails
    \/ SkipChallenge
    \/ SkipChallengeSubmit
    \/ SkipProof
    \/ SkipProofSubmit
    \/ HandleFile
    \/ RemoveFile
    \/ SubmitWithProof
    \/ UploadProof
    \/ SubmitWithProofSubmit
    \/ NavigateToSummary
    \/ Unmount
    \/ SummaryRedirect
    \/ SummaryDelete
    \/ SummaryDeleteDone
    \/ SummaryPost
    \/ SummaryPostDone
    \/ FetchRejects

Spec == Init /\ [][Next]_vars

\* the run controller with a run service that may also answer POST finish
\* with an error status
NextWithErrors ==
    \/ Next
    \/ TimeoutFinishRefused
    \/ GiveUpFinishRefused

SpecWithErrors == Init /\ [][NextWithErrors]_vars

\* the challenge page against a catalog in which levels may have no
\* seconds_limit
SpecAnyCatalog == InitAnyCatalog /\ [][Next]_vars

\* every awaited request settles: it is answered, or its fetch rejects
RequestSettles ==
    \/ InitLevels \/ InitLast \/ InitCur \/ InitCreate \/ InitGet
    \/ TimeoutFinish \/ TimeoutSubmit \/ LoadNextRunState
    \/ GiveUpFinish \/ SetProofState \/ SetProofStateFails
    \/ SkipChallengeSubmit \/ SkipProofSubmit
    \/ UploadProof \/ SubmitWithProofSubmit
    \/ FetchRejects

\* the effects that are due after a render run: the timer and the
\* navigation to the summary
EffectsRun == TimerTimeout \/ NavigateToSummary

\* the challenge page where requests settle and effects run; the user and
\* the clock are free
SpecLive == Spec /\ WF_vars(RequestSettles) /\ WF_vars(EffectsRun)

\* ====================================================== the feed page
Min(a, b) == IF a < b THEN a ELSE b

\* Math.max(0, n)
Max0(n) == IF n < 0 THEN 0 ELSE n

\* ---------------------------------------------------- remote feed service
\* the public runs, newest first
Feed == [i \in 1..posted |-> posted + 1 - i]

SrvLikeCount(r) == srvOthers[r] + (IF srvLiked[r] THEN 1 ELSE 0)

FeedItem(r) == [run_id |-> r, like_count |-> SrvLikeCount(r),
                liked_by_viewer |-> srvLiked[r],
                comment_count |-> srvComments[r]]

\* GET /public-runs?limit&offset&viewer_id: items, has_more
SrvPage(off, lim) ==
    [i \in 1..(Min(off + lim, posted) - Min(off, posted)) |-> FeedItem(Feed[off + i])]

SrvHasMore(off, lim) == off + lim < posted

\* another user posts a run: it is the first of the feed from now on
RunPosted ==
    /\ posted < MaxFeed
    /\ posted' = posted + 1
    /\ UNCHANGED <<srvLiked, srvOthers, feedClientVars, likeVars, runVars, widgetVars>>

\* another user likes a public run
OtherUserLikes ==
    /\ \E r \in 1..posted :
        /\ srvOthers[r] < MaxOtherLikes
        /\ srvOthers' = [srvOthers EXCEPT ![r] = @ + 1]
    /\ UNCHANGED <<posted, srvLiked, feedClientVars, likeVars, runVars, widgetVars>>

\* ------------------------------------------------- FeedPage (part_005)
\* the like requests of the page that was left get no handler any more
Orphaned == [k \in DOMAIN likeReqs |-> [likeReqs[k] EXCEPT !.stale = TRUE]]

\* the feed page is opened or reloaded: a fresh component
FeedMount ==
    /\ page' = "feed"
    /\ viewerId' = 0 /\ items' = <<>>
    /\ loadingInitial' = TRUE /\ loadingMore' = FALSE
    /\ offset' = 0 /\ hasMore' = TRUE
    /\ visibleIndex' = 0 /\ initialLoadRef' = FALSE
    /\ feedReq' = NoReq /\ feedInFlight' = 0
    /\ likeReqs' = Orphaned
    /\ likeGhost' = [r \in FeedRunIds |-> NoGhost]
    /\ UNCHANGED <<ls_user_id, fails, feedSrvVars, runOnlyVars, widgetVars>>

\* the effect on [viewerId]: read user_id from storage, or generate it
FeedIdentity ==
    /\ page = "feed"
    /\ viewerId = 0
    /\ ls_user_id' = getOrCreateIdentity
    /\ viewerId' = ls_user_id'
    /\ UNCHANGED <<page, fails, feedSrvVars, items, loadingInitial,
                   loadingMore, offset, hasMore, visibleIndex, initialLoadRef,
                   feedReq, feedInFlight, likeVars, runOnlyVars, widgetVars>>

\* mutant: loadMore sends without raising the in-flight flag
loadMore_NoFlag(count) ==
    /\ loadingMore' = loadingMore
    /\ feedReq' = [limit |-> count, offset |-> offset]
    /\ feedInFlight' = feedInFlight + 1

\* loadMore(count) up to its await
loadMore(count) ==
    IF loadingMore \/ ~hasMore \/ viewerId = 0
    THEN UNCHANGED <<loadingMore, feedReq, feedInFlight>>
    ELSE /\ loadingMore' = TRUE
         /\ feedReq' = [limit |-> count, offset |-> offset]
         /\ feedInFlight' = feedInFlight + 1

\* the initial load effect without its ref
initialLoadDue_NoRef == viewerId # 0

\* the guards of the initial load effect
initialLoadDue == viewerId # 0 /\ ~initialLoadRef

\* the initial load effect: one batch, once
InitialLoad ==
    /\ page = "feed"
    /\ initialLoadDue
    /\ initialLoadRef' = TRUE
    /\ loadMore(INITIAL_BATCH)
    /\ UNCHANGED <<page, ls_user_id, fails, feedSrvVars, viewerId, items,
                   loadingInitial, offset, hasMore, visibleIndex, likeVars,
                   runOnlyVars, widgetVars>>

RunIdsOf(list) == {list[i].run_id : i \in DOMAIN list}

\* setItems in loadMore: the received items whose run_id is not yet loaded
Deduped(prev, normalized) ==
    SelectSeq(normalized, LAMBDA item : item.run_id \notin RunIdsOf(prev))

\* GET /public-runs answered
FeedPageLoaded ==
    /\ page = "feed"
    /\ feedReq # NoReq
    /\ \E withNextOffset \in BOOLEAN :
        LET normalized == SrvPage(feedReq.offset, feedReq.limit)
            received == Len(normalized)
            nextOffsetFromBackend == feedReq.offset + received
            backendHasMore == SrvHasMore(feedReq.offset, feedReq.limit)
        IN
        /\ items' = items \o Deduped(items, normalized)
        /\ offset' = IF withNextOffset THEN nextOffsetFromBackend
                     ELSE offset + received
        /\ hasMore' = IF ~backendHasMore \/ received = 0 THEN FALSE ELSE hasMore
    /\ loadingMore' = FALSE
    /\ loadingInitial' = FALSE
    /\ feedReq' = NoReq
    /\ feedInFlight' = Max0(feedInFlight - 1)
    /\ UNCHANGED <<page, ls_user_id, fails, feedSrvVars, viewerId,
                   visibleIndex, initialLoadRef, likeVars, runOnlyVars, widgetVars>>

\* mutant: a failed page fetch ends the feed
FeedPageFails_EndsFeed ==
    /\ page = "feed"
    /\ feedReq # NoReq
    /\ fails < MaxFailures
    /\ fails' = fails + 1
    /\ hasMore' = FALSE
    /\ loadingMore' = FALSE
    /\ loadingInitial' = FALSE
    /\ feedReq' = NoReq
    /\ feedInFlight' = Max0(feedInFlight - 1)
    /\ UNCHANGED <<page, ls_user_id, feedSrvVars, viewerId, items, offset,
                   visibleIndex, initialLoadRef, likeVars, runOnlyVars, widgetVars>>

\* GET /public-runs rejects or is not OK: catch logs, finally ends loading
FeedPageFails ==
    /\ page = "feed"
    /\ feedReq # NoReq
    /\ fails < MaxFailures
    /\ fails' = fails + 1
    /\ loadingMore' = FALSE
    /\ loadingInitial' = FALSE
    /\ feedReq' = NoReq
    /\ feedInFlight' = Max0(feedInFlight - 1)
    /\ UNCHANGED <<page, ls_user_id, feedSrvVars, viewerId, items, offset,
                   hasMore, visibleIndex, initialLoadRef, likeVars, runOnlyVars, widgetVars>>

\* mutant: the desired total forgets the initial batch
DesiredTotal_NoInitial(index) == index

DesiredTotal(index) == INITIAL_BATCH + index

\* the scroll effect has a load to ask for
ScrollLoadDue ==
    /\ page = "feed"
    /\ hasMore /\ ~loadingMore
    /\ Len(items) # 0
    /\ Len(items) < DesiredTotal(visibleIndex)

\* the scroll-driven loading effect
ScrollLoad ==
    /\ ScrollLoadDue
    /\ loadMore(INCREMENT_BATCH)
    /\ <<loadingMore, feedReq, feedInFlight>>' # <<loadingMore, feedReq, feedInFlight>>
    /\ UNCHANGED <<page, ls_user_id, fails, feedSrvVars, viewerId, items,
                   loadingInitial, offset, hasMore, visibleIndex,
                   initialLoadRef, likeVars, runOnlyVars, widgetVars>>

\* the user sees the rendered page and no effect is due
FeedAtRest == page = "feed" /\ ~ScrollLoadDue /\ (viewerId = 0 \/ initialLoadRef)

\* the intersection observer reports another card as the visible one
SetVisibleIndex ==
    /\ FeedAtRest
    /\ \E idx \in 0..(Len(items) - 1) :
        /\ idx # visibleIndex
        /\ visibleIndex' = idx
    /\ UNCHANGED <<page, ls_user_id, fails, feedSrvVars, viewerId, items,
                   loadingInitial, loadingMore, offset, hasMore,
                   initialLoadRef, feedReq, feedInFlight, likeVars, runOnlyVars, widgetVars>>

\* ------------------------------------------------------------ like toggle
\* a like request of the mounted page for run r is in flight
LikeInFlight(r) ==
    \E k \in DOMAIN likeReqs : likeReqs[k].run_id = r /\ ~likeReqs[k].stale

Without(seq, k) == SubSeq(seq, 1, k - 1) \o SubSeq(seq, k + 1, Len(seq))

\* the optimistic update of handleLike
Toggled(run, nextLiked, delta) ==
    [run EXCEPT !.liked_by_viewer = nextLiked,
                !.like_count = Max0(@ + delta)]

\* the update of handleLike's catch
RolledBack(run, nextLiked, delta) ==
    [run EXCEPT !.liked_by_viewer = ~nextLiked,
                !.like_count = Max0(@ - delta)]

\* the update of handleLike on success: the server's values
Reconciled(run, req) ==
    [run EXCEPT !.like_count = req.like_count, !.liked_by_viewer = req.liked]

\* handleLike(run_id) up to its await: optimistic update, POST or DELETE sent
HandleLike ==
    /\ FeedAtRest
    /\ viewerId # 0
    /\ Len(likeReqs) < MaxLikeReqs
    /\ \E i \in DOMAIN items :
        LET target == items[i]
            nextLiked == ~target.liked_by_viewer
            delta == IF nextLiked THEN 1 ELSE 0 - 1
        IN
        /\ items' = [j \in DOMAIN items |->
                        IF items[j].run_id = target.run_id
                        THEN Toggled(items[j], nextLiked, delta) ELSE items[j]]
        /\ likeReqs' = Append(likeReqs,
               [run_id |-> target.run_id, nextLiked |-> nextLiked,
                delta |-> delta, state |-> "sent", stale |-> FALSE,
                like_count |-> 0, liked |-> FALSE])
        /\ likeGhost' =
               IF LikeInFlight(target.run_id) THEN likeGhost
               ELSE [likeGhost EXCEPT ![target.run_id] =
                        [set |-> TRUE, liked |-> target.liked_by_viewer,
                         count |-> target.like_count, clean |-> TRUE]]
    /\ UNCHANGED <<page, ls_user_id, fails, feedSrvVars, viewerId,
                   loadingInitial, loadingMore, offset, hasMore, visibleIndex,
                   initialLoadRef, feedReq, feedInFlight, runOnlyVars, widgetVars>>

\* POST or DELETE /runs/{id}/like is handled by the remote service
SrvLike ==
    /\ \E k \in DOMAIN likeReqs :
        LET req == likeReqs[k]
            count == srvOthers[req.run_id] + (IF req.nextLiked THEN 1 ELSE 0)
        IN
        /\ req.state = "sent"
        /\ srvLiked' = [srvLiked EXCEPT ![req.run_id] = req.nextLiked]
        /\ likeReqs' = [likeReqs EXCEPT ![k] =
               [@ EXCEPT !.state = "done", !.like_count = count,
                         !.liked = req.nextLiked]]
    /\ UNCHANGED <<posted, srvOthers, feedClientVars, likeGhost, runVars, widgetVars>>

\* the like request is answered: the run takes the server's values
LikeResponse ==
    /\ \E k \in DOMAIN likeReqs :
        LET req == likeReqs[k] IN
        /\ req.state = "done"
        /\ likeReqs' = Without(likeReqs, k)
        /\ IF req.stale
           THEN UNCHANGED <<items, likeGhost>>
           ELSE /\ items' = [j \in DOMAIN items |->
                                IF items[j].run_id = req.run_id
                                THEN Reconciled(items[j], req) ELSE items[j]]
                /\ likeGhost' = [likeGhost EXCEPT ![req.run_id].clean = FALSE]
    /\ UNCHANGED <<page, ls_user_id, fails, feedSrvVars, viewerId,
                   loadingInitial, loadingMore, offset, hasMore, visibleIndex,
                   initialLoadRef, feedReq, feedInFlight, runOnlyVars, widgetVars>>

\* the like request rejects or is not OK, before or after the remote
\* service handled it: the catch rolls the run back
LikeFails ==
    /\ fails < MaxFailures
    /\ fails' = fails + 1
    /\ \E k \in DOMAIN likeReqs :
        LET req == likeReqs[k] IN
        /\ likeReqs' = Without(likeReqs, k)
        /\ IF req.stale
           THEN UNCHANGED items
           ELSE items' = [j \in DOMAIN items |->
                             IF items[j].run_id = req.run_id
                             THEN RolledBack(items[j], req.nextLiked, req.delta)
                             ELSE items[j]]
    /\ UNCHANGED <<page, ls_user_id, feedSrvVars, viewerId, loadingInitial,
                   loadingMore, offset, hasMore, visibleIndex, initialLoadRef,
                   feedReq, feedInFlight, likeGhost, runOnlyVars, widgetVars>>

\* the feed page: pagination and scroll-driven loading
FeedNext ==
    \/ Mount
    \/ FeedMount
    \/ FeedIdentity
    \/ InitialLoad
    \/ FeedPageLoaded
    \/ FeedPageFails
    \/ ScrollLoad
    \/ SetVisibleIndex
    \/ RunPosted

SpecFeed == Init /\ [][FeedNext]_vars

\* the feed page: the like toggle on the loaded runs
LikeNext ==
    \/ FeedMount
    \/ FeedIdentity
    \/ InitialLoad
    \/ FeedPageLoaded
    \/ OtherUserLikes
    \/ HandleLike
    \/ SrvLike
    \/ LikeResponse
    \/ LikeFails

SpecLike == Init /\ [][LikeNext]_vars

\* the feed page is opened
FeedOpened == page # "feed" /\ FeedMount

\* one mount of the feed page, with failing page fetches.  React runs the
\* effects that are due, every request is answered, and the observer
\* reports the cards the user scrolls to.
RetryNext ==
    \/ FeedOpened
    \/ FeedIdentity
    \/ InitialLoad
    \/ FeedPageLoaded
    \/ FeedPageFails
    \/ ScrollLoad
    \/ SetVisibleIndex
    \/ RunPosted

SpecFeedRetry ==
    /\ Init /\ [][RetryNext]_vars
    /\ WF_vars(FeedOpened) /\ WF_vars(FeedIdentity)
    /\ WF_vars(InitialLoad) /\ WF_vars(ScrollLoad)
    /\ WF_vars(FeedPageLoaded \/ FeedPageFails)
    /\ WF_vars(SetVisibleIndex)

\* ------------------------------------ visibility observer (part_005 126-158)
\* The viewport is as high as two cards.  Positions are in quarters of a
\* card: card idx lies from 4 idx to 4 idx + 4, the viewport from scrollPos
\* to scrollPos + 8.  intersectionRatio of card idx, in percent:
Ratio(idx, pos) ==
    LET top == IF 4 * idx > pos THEN 4 * idx ELSE pos
        bottom == IF 4 * idx + 4 < pos + 8 THEN 4 * idx + 4 ELSE pos + 8
    IN IF bottom > top THEN 25 * (bottom - top) ELSE 0

\* threshold: 0.6
Threshold == 60

Cards == 0..(Len(items) - 1)
ScrollPositions == 0..Max0(4 * Len(items) - 8)

\* entry.isIntersecting.  Browsers differ: the flag is set when the card
\* overlaps the viewport at all, or (strict) only when its ratio has reached
\* the first threshold.
isIntersecting(idx, pos, strict) ==
    IF strict THEN Ratio(idx, pos) >= Threshold ELSE Ratio(idx, pos) > 0

\* the entries the observer delivers after a scroll: the cards whose ratio
\* has crossed the threshold, or whose isIntersecting has changed
Entries(from, to, strict) ==
    {idx \in Cards :
        \/ (Ratio(idx, from) >= Threshold) # (Ratio(idx, to) >= Threshold)
        \/ isIntersecting(idx, from, strict) # isIntersecting(idx, to, strict)}

\* the callback's mostVisible: of the entries that intersect, the first
\* with the greatest ratio; -1 when none intersects
MostVisible(entries, pos, strict) ==
    LET cands == {idx \in entries : isIntersecting(idx, pos, strict)} IN
    IF cands = {} THEN 0 - 1
    ELSE CHOOSE idx \in cands :
             \A o \in cands :
                 \/ Ratio(o, pos) < Ratio(idx, pos)
                 \/ (Ratio(o, pos) = Ratio(idx, pos) /\ idx <= o)

\* the observer's callback with these entries
observerCallback(entries, pos, strict) ==
    LET mostVisible == MostVisible(entries, pos, strict) IN
    visibleIndex' = IF mostVisible < 0 THEN visibleIndex ELSE mostVisible

\* the effect on [items]: a new observer observes every card, and its
\* first callback has an entry for each of them
ObserverCreated ==
    /\ page = "feed" /\ items # <<>>
    /\ observed # Len(items)
    /\ observed' = Len(items)
    /\ \E strict \in BOOLEAN : observerCallback(Cards, scrollPos, strict)
    /\ UNCHANGED <<scrollPos, sheetVars, carouselVars,
                   coverVars, page, ls_user_id, fails,
                   feedSrvVars, viewerId, items, loadingInitial, loadingMore,
                   offset, hasMore, initialLoadRef, feedReq, feedInFlight,
                   likeVars, runOnlyVars>>

\* the user scrolls; the observer calls back when it has entries
Scroll ==
    /\ page = "feed" /\ items # <<>>
    /\ observed = Len(items)
    /\ \E pos \in ScrollPositions, strict \in BOOLEAN :
        /\ pos # scrollPos
        /\ scrollPos' = pos
        /\ IF Entries(scrollPos, pos, strict) = {}
           THEN visibleIndex' = visibleIndex
           ELSE observerCallback(Entries(scrollPos, pos, strict), pos, strict)
    /\ UNCHANGED <<observed, sheetVars, carouselVars,
                   coverVars, page, ls_user_id, fails,
                   feedSrvVars, viewerId, items, loadingInitial, loadingMore,
                   offset, hasMore, initialLoadRef, feedReq, feedInFlight,
                   likeVars, runOnlyVars>>

\* the feed page with its intersection observer
ObserverNext ==
    \/ FeedOpened
    \/ FeedIdentity
    \/ InitialLoad
    \/ FeedPageLoaded
    \/ ScrollLoad
    \/ RunPosted
    \/ ObserverCreated
    \/ Scroll

SpecObserver == Init /\ [][ObserverNext]_vars

\* ------------------------------------------- RunCarousel (part_009), in the feed
\* autoPlayActive={index === visibleIndex}
autoPlayActive(c) == c = visibleIndex

\* the carousels that are mounted: one for each loaded card
MountedCards == {c \in VideoCardIds : page = "feed" /\ c < Len(items)}

\* the dependencies of the autoplay effect
Deps(c) == <<selectedIndex[c], autoPlayActive(c)>>

\* the autoplay effect of carousel c has to run: after mount, and after a
\* render with other dependencies
EffectPending(c) == c \in MountedCards /\ effectDeps[c] # Deps(c)
EffectsFlushed == \A c \in VideoCardIds : ~EffectPending(c)

\* video.play(): the browser may refuse (the rejection is caught)
play(playing, c, idx, allowed) == [playing EXCEPT ![c][idx] = @ \/ allowed]

\* video.pause()
pause(playing, c, idx) == [playing EXCEPT ![c][idx] = FALSE]

\* ensureVideoPlaying without its test
ensureVideoPlaying_Unguarded(playing, c, idx, allowed) ==
    play(playing, c, idx, allowed)

\* ensureVideoPlaying(idx)
ensureVideoPlaying(playing, c, idx, allowed) ==
    IF idx = selectedIndex[c] /\ autoPlayActive(c)
    THEN play(playing, c, idx, allowed)
    ELSE playing

\* the effect on [selectedIndex, autoPlayActive], for one carousel
autoplayEffect(playing, c, allowed) ==
    IF ~autoPlayActive(c)
    THEN [idx \in Pages |-> FALSE]
    ELSE [idx \in Pages |->
             IF idx = selectedIndex[c] THEN playing[c][idx] \/ allowed
             ELSE FALSE]

\* React runs the pending autoplay effects
AutoplayEffects ==
    /\ ~EffectsFlushed
    /\ \E allowed \in BOOLEAN :
        videoPlaying' = [c \in VideoCardIds |->
            IF EffectPending(c) THEN autoplayEffect(videoPlaying, c, allowed)
            ELSE videoPlaying[c]]
    /\ effectDeps' = [c \in VideoCardIds |->
            IF c \in MountedCards THEN Deps(c) ELSE effectDeps[c]]
    /\ UNCHANGED <<selectedIndex, muteMap, holdVars, sheetVars, observerVars,
                   runVars, feedVars, coverVars>>

\* the user swipes carousel c to another page: onSelect
Select(c, idx) ==
    /\ EffectsFlushed /\ c \in MountedCards
    /\ idx # selectedIndex[c]
    /\ selectedIndex' = [selectedIndex EXCEPT ![c] = idx]
    /\ UNCHANGED <<videoPlaying, muteMap, holdVars, effectDeps, sheetVars,
                   observerVars, runVars, feedVars, coverVars>>

\* toggleMute(idx)
toggleMute(c, idx, allowed) ==
    LET nextMuted == ~muteMap[c][idx] IN
    /\ muteMap' = [muteMap EXCEPT ![c][idx] = nextMuted]
    /\ videoPlaying' = IF ~nextMuted
                       THEN ensureVideoPlaying(videoPlaying, c, idx, allowed)
                       ELSE videoPlaying

\* a tap on a video: handleVideoClick
HandleVideoClick(c, idx) ==
    /\ EffectsFlushed /\ c \in MountedCards
    /\ IF <<c, idx>> \in suppressClickRef
       THEN /\ suppressClickRef' = suppressClickRef \ {<<c, idx>>}
            /\ UNCHANGED <<muteMap, videoPlaying>>
       ELSE /\ \E allowed \in BOOLEAN : toggleMute(c, idx, allowed)
            /\ UNCHANGED suppressClickRef
    /\ UNCHANGED <<selectedIndex, holdTimeoutRef, holdActiveRef, effectDeps,
                   sheetVars, observerVars, runVars, feedVars, coverVars>>

\* the pointer goes down on a video: handlePointerDown starts the timer.
\* There is one pointer, and the setTimeout(0) of its last release has fired.
HandlePointerDown(c, idx) ==
    /\ EffectsFlushed /\ c \in MountedCards
    /\ holdTimeoutRef = {} /\ holdActiveRef = {} /\ suppressClickRef = {}
    /\ holdTimeoutRef' = {<<c, idx>>}
    /\ UNCHANGED <<selectedIndex, videoPlaying, muteMap, holdActiveRef,
                   suppressClickRef, effectDeps, sheetVars, observerVars,
                   runVars, feedVars, coverVars>>

\* 150 ms later the timer of handlePointerDown fires
HoldTimeout(c, idx) ==
    /\ EffectsFlushed
    /\ <<c, idx>> \in holdTimeoutRef /\ <<c, idx>> \notin holdActiveRef
    /\ holdActiveRef' = holdActiveRef \cup {<<c, idx>>}
    /\ suppressClickRef' = suppressClickRef \cup {<<c, idx>>}
    /\ videoPlaying' = pause(videoPlaying, c, idx)
    /\ UNCHANGED <<selectedIndex, muteMap, holdTimeoutRef, effectDeps,
                   sheetVars, observerVars, runVars, feedVars, coverVars>>

\* the pointer goes up, leaves or is cancelled: handlePointerRelease
HandlePointerRelease(c, idx) ==
    /\ EffectsFlushed
    /\ <<c, idx>> \in holdTimeoutRef
    /\ holdTimeoutRef' = holdTimeoutRef \ {<<c, idx>>}
    /\ IF <<c, idx>> \in holdActiveRef
       THEN /\ holdActiveRef' = holdActiveRef \ {<<c, idx>>}
            /\ \E allowed \in BOOLEAN :
                videoPlaying' = ensureVideoPlaying(videoPlaying, c, idx, allowed)
       ELSE UNCHANGED <<holdActiveRef, videoPlaying>>
    /\ UNCHANGED <<selectedIndex, muteMap, suppressClickRef, effectDeps,
                   sheetVars, observerVars, runVars, feedVars, coverVars>>

\* the setTimeout(0) of handlePointerRelease
SuppressExpires(c, idx) ==
    /\ EffectsFlushed
    /\ <<c, idx>> \in suppressClickRef /\ <<c, idx>> \notin holdActiveRef
    /\ suppressClickRef' = suppressClickRef \ {<<c, idx>>}
    /\ UNCHANGED <<selectedIndex, videoPlaying, muteMap, holdTimeoutRef,
                   holdActiveRef, effectDeps, sheetVars, observerVars,
                   runVars, feedVars, coverVars>>

\* the feed page with the carousels of the cards of its first batch.
\* React runs the pending effects of a render before it handles what comes
\* next.
CarouselNext ==
    \/ FeedOpened
    \/ FeedIdentity
    \/ InitialLoad
    \/ EffectsFlushed /\ FeedPageLoaded
    \/ posted < INITIAL_BATCH /\ RunPosted
    \/ EffectsFlushed /\ ObserverCreated
    \/ EffectsFlushed /\ Scroll
    \/ AutoplayEffects
    \/ \E c \in VideoCardIds, idx \in Pages :
        \/ Select(c, idx)
        \/ HandleVideoClick(c, idx)
        \/ HandlePointerDown(c, idx)
        \/ HoldTimeout(c, idx)
        \/ HandlePointerRelease(c, idx)
        \/ SuppressExpires(c, idx)

SpecCarousel == Init /\ [][CarouselNext]_vars

\* ----------------------------------- SummaryPage, cover photo (SummaryPage.tsx)
\* the step lists GET /runs/{id}/steps can answer with: step ids 1, 2, ...,
\* each with or without proof, the cover flag on the server's cover step
StepLists(cover) ==
    UNION {[1..n -> {[id |-> i, proof_url |-> p, is_cover |-> i = cover] :
                        i \in 1..n, p \in BOOLEAN}] : n \in 0..MaxSteps}

ServedSteps(cover) ==
    {list \in StepLists(cover) : \A i \in DOMAIN list : list[i].id = i}

\* the steps shown as cover
CoverSteps(list) == {i \in DOMAIN list : list[i].is_cover}

\* the load effect: the stored run's steps arrive
SummaryLoaded ==
    /\ sumRunId = 0
    /\ sumRunId' = 1
    /\ \E cover \in 0..MaxSteps :
        /\ srvCover' = cover
        /\ \E list \in ServedSteps(cover) :
            /\ cover # 0 => cover \in DOMAIN list
            /\ steps' = list
    /\ defaultCoverAttempted' = FALSE
    /\ UNCHANGED <<coverReqs, sheetVars, observerVars, carouselVars,
                   runVars, feedVars>>

\* the optimistic update that sets one flag and keeps the others
markCover_KeepOthers(list, stepId) ==
    [i \in DOMAIN list |->
        [list[i] EXCEPT !.is_cover = IF list[i].id = stepId THEN TRUE ELSE @]]

\* handleSetCover's optimistic update: is_cover: step.id === stepId
markCover(list, stepId) ==
    [i \in DOMAIN list |-> [list[i] EXCEPT !.is_cover = list[i].id = stepId]]

\* handleSetCover's rollback: is_cover: step.id === stepId ? false : step.is_cover
unmarkCover(list, stepId) ==
    [i \in DOMAIN list |->
        [list[i] EXCEPT !.is_cover = IF list[i].id = stepId THEN FALSE ELSE @]]

\* handleSetCover(stepId), up to its await
handleSetCover(stepId) ==
    /\ sumRunId # 0
    /\ Len(coverReqs) < MaxCoverReqs
    /\ steps' = markCover(steps, stepId)
    /\ coverReqs' = Append(coverReqs, stepId)

\* the user picks a step with proof as cover photo
HandleSetCover ==
    /\ \E i \in DOMAIN steps :
        /\ steps[i].proof_url
        /\ handleSetCover(steps[i].id)
    /\ UNCHANGED <<sumRunId, defaultCoverAttempted, srvCover, sheetVars,
                   observerVars, carouselVars, runVars, feedVars>>

\* the default cover effect: no step is cover, the first step with proof
\* becomes it, once
DefaultCover ==
    /\ sumRunId # 0 /\ steps # <<>>
    /\ CoverSteps(steps) = {}
    /\ ~defaultCoverAttempted
    /\ \E i \in DOMAIN steps :
        /\ steps[i].proof_url
        /\ \A j \in 1..(i - 1) : ~steps[j].proof_url
        /\ defaultCoverAttempted' = TRUE
        /\ handleSetCover(steps[i].id)
    /\ UNCHANGED <<sumRunId, srvCover, sheetVars, observerVars, carouselVars,
                   runVars, feedVars>>

\* request k is answered; the answer is not looked at.  The server has set
\* the cover, or has refused.
CoverAnswered(k) ==
    /\ k \in DOMAIN coverReqs
    /\ coverReqs' = Without(coverReqs, k)
    /\ \E served \in BOOLEAN :
        srvCover' = IF served THEN coverReqs[k] ELSE srvCover
    /\ UNCHANGED <<sumRunId, steps, defaultCoverAttempted, sheetVars,
                   observerVars, carouselVars, runVars, feedVars>>

\* request k fails: the catch rolls the flag of its step back
CoverFails(k) ==
    /\ k \in DOMAIN coverReqs
    /\ coverReqs' = Without(coverReqs, k)
    /\ steps' = unmarkCover(steps, coverReqs[k])
    /\ UNCHANGED <<sumRunId, defaultCoverAttempted, srvCover, sheetVars,
                   observerVars, carouselVars, runVars, feedVars>>

CoverNext ==
    \/ SummaryLoaded
    \/ HandleSetCover
    \/ DefaultCover
    \/ \E k \in 1..MaxCoverReqs : CoverAnswered(k) \/ CoverFails(k)

SpecCover == Init /\ [][CoverNext]_vars

\* ----------------------------------------- CommentsSheet (CommentsSheet.tsx)
\* what the user can type: a space or a letter
Chars == {" ", "a"}
Inputs == UNION {[1..n -> Chars] : n \in 0..MaxInput}

RECURSIVE trimStart(_)
trimStart(str) ==
    IF str # <<>> /\ Head(str) = " " THEN trimStart(Tail(str)) ELSE str

RECURSIVE trimEnd(_)
trimEnd(str) ==
    IF str # <<>> /\ str[Len(str)] = " "
    THEN trimEnd(SubSeq(str, 1, Len(str) - 1)) ELSE str

\* String.prototype.trim
trim(str) == trimEnd(trimStart(str))

\* handleComment(run_id): the sheet of a loaded run is mounted, empty, and
\* its load effect sends GET comments
HandleComment ==
    /\ FeedAtRest
    /\ sheetRunId = 0
    /\ \E i \in DOMAIN items : sheetRunId' = items[i].run_id
    /\ comments' = <<>> /\ input' = <<>> /\ submitting' = FALSE
    /\ commentsReq' = sheetRunId'
    /\ UNCHANGED <<observerVars, carouselVars, coverVars,
                   srvComments, commentReq, feedVars, runVars>>

\* onClose: activeCommentsRunId is null and the sheet is unmounted; the
\* load effect's cleanup cancels its request, a POST in flight goes on
CloseComments ==
    /\ sheetRunId # 0
    /\ sheetRunId' = 0
    /\ comments' = <<>> /\ input' = <<>> /\ submitting' = FALSE
    /\ commentsReq' = 0
    /\ commentReq' = IF commentReq.run_id = 0 THEN commentReq
                     ELSE [commentReq EXCEPT !.stale = TRUE]
    /\ UNCHANGED <<observerVars, carouselVars, coverVars,
                   srvComments, feedVars, runVars>>

\* GET comments answered: the list is the server's
CommentsLoaded ==
    /\ commentsReq # 0
    /\ comments' = [i \in 1..srvComments[commentsReq] |-> i]
    /\ commentsReq' = 0
    /\ UNCHANGED <<observerVars, carouselVars, coverVars,
                   srvComments, sheetRunId, input, submitting, commentReq,
                   feedVars, runVars>>

\* GET comments fails: the catch logs
CommentsLoadFails ==
    /\ commentsReq # 0
    /\ fails < MaxFailures
    /\ fails' = fails + 1
    /\ commentsReq' = 0
    /\ UNCHANGED <<observerVars, carouselVars, coverVars,
                   srvComments, sheetRunId, comments, input, submitting,
                   commentReq, feedVars, storageVars, runs, seconds_limit,
                   clientVars, asyncVars, proofReq, finalized>>

\* onChange of the textarea, which is disabled without a viewer and while
\* submitting
TypeInput ==
    /\ sheetRunId # 0 /\ viewerId # 0 /\ ~submitting
    /\ \E str \in Inputs : str # input /\ input' = str
    /\ UNCHANGED <<observerVars, carouselVars, coverVars,
                   srvComments, sheetRunId, comments, submitting, commentReq,
                   commentsReq, feedVars, runVars>>

\* mutant: the content is not trimmed before the test
canSubmit_NoTrim(trimmed, str) == str # <<>> /\ viewerId # 0

\* handleSubmit goes on: `if (!trimmed || !viewerId) return;`
canSubmit(trimmed, str) == trimmed # <<>> /\ viewerId # 0

\* handleSubmit up to its await: POST comments is sent with the trimmed
\* content.  The form cannot be submitted while submitting.
HandleSubmit ==
    /\ sheetRunId # 0 /\ ~submitting
    /\ commentReq.run_id = 0
    /\ srvComments[sheetRunId] < MaxComments
    /\ LET trimmed == trim(input) IN
       /\ canSubmit(trimmed, input)
       /\ commentReq' = [run_id |-> sheetRunId, content |-> trimmed,
                         stale |-> FALSE]
    /\ submitting' = TRUE
    /\ UNCHANGED <<observerVars, carouselVars, coverVars,
                   srvComments, sheetRunId, comments, input, commentsReq,
                   feedVars, runVars>>

\* handleCommentAdded(runId): the run's comment_count is one more
handleCommentAdded(runId_) ==
    [i \in DOMAIN items |->
        IF items[i].run_id = runId_
        THEN [items[i] EXCEPT !.comment_count = Max0(@ + 1)] ELSE items[i]]

\* POST comments answered with the stored comment: it is appended, the
\* input cleared, and FeedPage's callback counts it
CommentPosted ==
    /\ commentReq.run_id # 0
    /\ srvComments' = [srvComments EXCEPT ![commentReq.run_id] = @ + 1]
    /\ IF commentReq.stale
       THEN UNCHANGED <<comments, input, submitting>>
       ELSE /\ comments' = Append(comments, srvComments'[commentReq.run_id])
            /\ input' = <<>>
            /\ submitting' = FALSE
    /\ items' = handleCommentAdded(commentReq.run_id)
    /\ commentReq' = NoCommentReq
    /\ UNCHANGED <<observerVars, carouselVars, coverVars,
                   sheetRunId, commentsReq, page, ls_user_id, fails,
                   feedSrvVars, viewerId, loadingInitial, loadingMore, offset,
                   hasMore, visibleIndex, initialLoadRef, feedReq,
                   feedInFlight, likeVars, runOnlyVars>>

\* POST comments rejects or is not OK, whether or not the service stored
\* the comment: the catch logs, finally ends submitting
CommentFails ==
    /\ commentReq.run_id # 0
    /\ fails < MaxFailures
    /\ fails' = fails + 1
    /\ \E stored \in BOOLEAN :
        srvComments' = IF stored
                       THEN [srvComments EXCEPT ![commentReq.run_id] = @ + 1]
                       ELSE srvComments
    /\ submitting' = IF commentReq.stale THEN submitting ELSE FALSE
    /\ commentReq' = NoCommentReq
    /\ UNCHANGED <<observerVars, carouselVars, coverVars,
                   sheetRunId, comments, input, commentsReq, feedVars,
                   storageVars, runs, seconds_limit, clientVars, asyncVars,
                   proofReq, finalized>>

\* the feed page with the comments sheet
CommentsNext ==
    \/ FeedOpened
    \/ FeedIdentity
    \/ InitialLoad
    \/ FeedPageLoaded
    \/ HandleComment
    \/ CloseComments
    \/ CommentsLoaded
    \/ CommentsLoadFails
    \/ TypeInput
    \/ HandleSubmit
    \/ CommentPosted
    \/ CommentFails

SpecComments == Init /\ [][CommentsNext]_vars

\* --------------------------------- FeedPage (frontend/src/pages/FeedPage.tsx)
\* loadMore(count) up to its await
TsxLoadMore(count) ==
    IF loadingMore \/ ~hasMore
    THEN UNCHANGED <<loadingMore, feedReq, feedInFlight>>
    ELSE /\ loadingMore' = TRUE
         /\ feedReq' = [limit |-> count, offset |-> offset]
         /\ feedInFlight' = feedInFlight + 1

\* the page is opened or reloaded; the mount effect loads the initial batch
TsxMount ==
    /\ page' = "feed"
    /\ viewerId' = 0 /\ items' = <<>>
    /\ loadingInitial' = TRUE
    /\ offset' = 0 /\ hasMore' = TRUE
    /\ visibleIndex' = 0 /\ initialLoadRef' = TRUE
    /\ loadingMore' = TRUE
    /\ feedReq' = [limit |-> INITIAL_BATCH, offset |-> 0]
    /\ feedInFlight' = 1
    /\ UNCHANGED <<ls_user_id, fails, feedSrvVars, likeVars, runOnlyVars, widgetVars>>

\* GET /public-runs answered: the page is appended
TsxPageLoaded ==
    /\ page = "feed"
    /\ feedReq # NoReq
    /\ LET newItems == SrvPage(feedReq.offset, feedReq.limit)
           received == Len(newItems)
           backendHasMore == SrvHasMore(feedReq.offset, feedReq.limit)
       IN
       /\ items' = items \o newItems
       /\ offset' = offset + received
       /\ hasMore' = IF ~backendHasMore \/ received = 0 THEN FALSE ELSE hasMore
    /\ loadingMore' = FALSE
    /\ loadingInitial' = FALSE
    /\ feedReq' = NoReq
    /\ feedInFlight' = Max0(feedInFlight - 1)
    /\ UNCHANGED <<page, ls_user_id, fails, feedSrvVars, viewerId,
                   visibleIndex, initialLoadRef, likeVars, runOnlyVars, widgetVars>>

\* GET /public-runs rejects or is not OK
TsxPageFails ==
    /\ page = "feed"
    /\ feedReq # NoReq
    /\ fails < MaxFailures
    /\ fails' = fails + 1
    /\ loadingMore' = FALSE
    /\ loadingInitial' = FALSE
    /\ feedReq' = NoReq
    /\ feedInFlight' = Max0(feedInFlight - 1)
    /\ UNCHANGED <<page, ls_user_id, feedSrvVars, viewerId, items, offset,
                   hasMore, visibleIndex, initialLoadRef, likeVars, runOnlyVars, widgetVars>>

TsxScrollLoadDue ==
    /\ page = "feed"
    /\ hasMore /\ ~loadingMore
    /\ Len(items) # 0
    /\ Len(items) < INITIAL_BATCH + visibleIndex

\* the scroll-driven loading effect
TsxScrollLoad ==
    /\ TsxScrollLoadDue
    /\ TsxLoadMore(INCREMENT_BATCH)
    /\ UNCHANGED <<page, ls_user_id, fails, feedSrvVars, viewerId, items,
                   loadingInitial, offset, hasMore, visibleIndex,
                   initialLoadRef, likeVars, runOnlyVars, widgetVars>>

\* the intersection observer reports an intersecting card
TsxSetVisibleIndex ==
    /\ page = "feed" /\ ~TsxScrollLoadDue
    /\ \E idx \in 0..(Len(items) - 1) :
        /\ idx # visibleIndex
        /\ visibleIndex' = idx
    /\ UNCHANGED <<page, ls_user_id, fails, feedSrvVars, viewerId, items,
                   loadingInitial, loadingMore, offset, hasMore,
                   initialLoadRef, feedReq, feedInFlight, likeVars, runOnlyVars, widgetVars>>

TsxNext ==
    \/ TsxMount
    \/ TsxPageLoaded
    \/ TsxPageFails
    \/ TsxScrollLoad
    \/ TsxSetVisibleIndex
    \/ RunPosted

SpecFeedPageTsx == Init /\ [][TsxNext]_vars

\* ======================================================== claims C1 - C7
LastStep(run) == run.steps[Len(run.steps)]

\* C1: skipsUsed never exceeds MAX_SKIPS, on the run service and in the
\* controller; a skipped step is in flight (Skip challenge, Timeout) only
\* while a skip is left, and a timeout with no skip left posts finish.
C1_SkipBudget ==
    /\ \A r \in RunIds : runs[r].skips <= MAX_SKIPS
    /\ skipsUsed <= MAX_SKIPS
    /\ pc \in {"to_submit", "sc_submit"} =>
           skipsUsed < MAX_SKIPS /\ runs[rid].skips < MAX_SKIPS
    /\ (handler = "timeout" /\ pc \in {"to_finish", "to_submit"}
          /\ skipsUsed >= MAX_SKIPS) => pc = "to_finish"

\* the timer's timeout, with the budget spent, has posted finish
C1_Witness ==
    /\ handler = "timeout" /\ pc = "to_finish"
    /\ skipsUsed = MAX_SKIPS /\ runs[rid].skips = MAX_SKIPS

\* C2: every step a transition adds has skippedWhole => ~completed, and one
\* with completed = false and skippedWhole = false is added only on the
\* timeout-without-budget path.
C2_StepShape ==
    [][\A r \in RunIds :
          Len(runs'[r].steps) > Len(runs[r].steps) =>
              LET s == LastStep(runs'[r]) IN
              /\ s.skippedWhole => ~s.completed
              /\ (~s.completed /\ ~s.skippedWhole) => pc = "to_finish"]_vars

\* a run with a skipped step and a completed step
C2_Witness ==
    \E r \in RunIds :
        /\ \E i \in 1..Len(runs[r].steps) : runs[r].steps[i].skippedWhole
        /\ \E i \in 1..Len(runs[r].steps) : runs[r].steps[i].completed

\* the controller is at rest on a run the run service holds as finished
AtRestOnFinishedRun ==
    /\ page \in {"challenge", "summary"}
    /\ pc = "idle" /\ ~loading /\ challenge = 0
    /\ runId # 0 /\ runs[runId].finished

\* C3: the finalize side effect happens at most once per run, and a run the
\* controller has finished, or has seen finished, has had it: last_run_id is
\* the run and current_run_id is removed.
C3_FinalizeExactlyOnce ==
    /\ \A r \in RunIds : finalized[r] <= 1
    /\ AtRestOnFinishedRun =>
           /\ finalized[runId] = 1
           /\ ls_last_run_id = runId
           /\ ls_current_run_id = 0

\* the level init loads is pending, not in its proof step, and started
\* more than its limit ago
LoadsExpiredLevel ==
    /\ pc \in {"init_cur", "init_get"}
    /\ LET run == runs[rid] IN
       /\ run.exists /\ ~run.finished /\ run.pending # 0 /\ ~run.proofPending
       /\ run.pendingAge > PendingTimeLimit(run)

\* C4: when init loads a level that started more than its limit ago, it runs
\* the timeout transition and shows no timer; a timer is never shown with a
\* negative timeLeft.
C4_TimeoutBeforeTimer ==
    [][/\ (LoadsExpiredLevel /\ (InitGet \/ (InitCur /\ pc' # "init_create"))) =>
              (pc' \in {"to_finish", "to_submit"} /\ ~TimerStep')
       /\ TimerStep' => timeLeft' >= 0]_vars

\* init has run the timeout transition for a stored run's level past its
\* limit
C4_Witness ==
    /\ handler = "init" /\ pc \in {"to_finish", "to_submit"}
    /\ ls_current_run_id = rid
    /\ runs[rid].pendingAge > PendingTimeLimit(runs[rid])

\* C5: with skipsUsed = MAX_SKIPS, the timer at 0 posts finish; when finish
\* is answered the run is finished, no step was added, and the controller
\* has no challenge.
C5_TimeoutFinishesRun ==
    [][/\ (TimerTimeout /\ skipsUsed = MAX_SKIPS) => pc' = "to_finish"
       /\ (TimeoutFinish /\ handler = "timeout") =>
              /\ runs'[rid].finished
              /\ runs'[rid].steps = runs[rid].steps
              /\ challenge' = 0
              /\ ~TimerStep' /\ ~ProofStep']_vars

\* the timer's timeout has finished a run whose skip was spent: the timer is
\* at 0, and the run is finished with a step less than the catalog has levels
C5_Witness ==
    /\ page = "challenge" /\ pc = "idle" /\ ~loading
    /\ timeLeft = 0 /\ ~showUploadStep
    /\ skipsUsed = MAX_SKIPS /\ challenge = 0
    /\ runId # 0 /\ runs[runId].finished /\ ls_last_run_id = runId
    /\ runs[runId].skips = MAX_SKIPS
    /\ Len(runs[runId].steps) < NumLevels

ProofSkippedStep(l) ==
    [level |-> l, completed |-> TRUE, skippedWhole |-> FALSE, proofUrl |-> FALSE]

ProofStepOf(l) ==
    [level |-> l, completed |-> TRUE, skippedWhole |-> FALSE, proofUrl |-> TRUE]

C7_ProofThenSkipProof ==
    [][/\ (SubmitWithProofSubmit /\ challenge = 1 /\ runs[rid].pending = 1) =>
              runs'[rid].steps = <<ProofStepOf(1)>>
       /\ (SkipProofSubmit /\ challenge = 2 /\ runs[rid].pending = 2
             /\ runs[rid].steps = <<ProofStepOf(1)>>) =>
              runs'[rid].steps = <<ProofStepOf(1), ProofSkippedStep(2)>>]_vars

\* proof was submitted for level 1 and skipped for level 2
C7_Witness ==
    /\ handler = "skipProof" /\ pc = "lns_get"
    /\ runs[rid].steps = <<ProofStepOf(1), ProofSkippedStep(2)>>

\* ======================================================= claims C8 - C10
\* C8: after any sequence of feed page loads, pages that overlap loaded
\* items included, no two entries of items have the same run id.
C8_NoDuplicateRunIds ==
    \A i, j \in DOMAIN items : i # j => items[i].run_id # items[j].run_id

\* the loaded run with this id, as the feed page shows it
Shown(r) == items[CHOOSE i \in DOMAIN items : items[i].run_id = r]

\* C9: when the like toggles of a run have all failed and none is in
\* flight any more, the run shows the likedByViewer and likeCount it showed
\* before the first of them.
C9_RollbackRestores ==
    \A r \in RunIdsOf(items) :
        (likeGhost[r].set /\ likeGhost[r].clean /\ ~LikeInFlight(r)) =>
            /\ Shown(r).liked_by_viewer = likeGhost[r].liked
            /\ Shown(r).like_count = likeGhost[r].count

\* the condition of the scroll-driven load, as the claim states it
ScrollCond ==
    /\ page = "feed"
    /\ hasMore /\ ~loadingMore /\ feedReq = NoReq
    /\ Len(items) >= 1
    /\ Len(items) < INITIAL_BATCH + visibleIndex

C11_OneFeedRequest ==
    [][/\ feedInFlight' <= 1
       /\ feedInFlight' > feedInFlight =>
              (hasMore /\ ~loadingMore /\ feedInFlight = 0 /\ loadingMore')]_vars

\* the pages are exhausted (hasMore is false after a completed load) while
\* the visible card asks for more cards than are loaded: nothing is sent
C11_Witness ==
    /\ page = "feed" /\ ~hasMore /\ ~loadingMore /\ feedInFlight = 0
    /\ Len(items) >= 1 /\ offset >= INITIAL_BATCH
    /\ Len(items) < INITIAL_BATCH + visibleIndex

\* C12: a failed feed page fetch leaves items, offset and hasMore as they
\* are and clears the loading flags; it never sets hasMore to false.
C12_FailedFetchFrame ==
    [][fails' > fails =>
          /\ items' = items /\ offset' = offset /\ hasMore' = hasMore
          /\ visibleIndex' = visibleIndex
          /\ ~loadingMore' /\ ~loadingInitial'
          /\ feedReq' = NoReq]_vars

\* the initial page fetch has failed: nothing is loaded, loading is over
\* and hasMore is still true
C12_Witness ==
    /\ page = "feed" /\ fails >= 1 /\ initialLoadRef
    /\ items = <<>> /\ offset = 0 /\ hasMore
    /\ ~loadingMore /\ ~loadingInitial /\ feedReq = NoReq

\* C13: when the proof upload of Submit with proof fails, no step is
\* submitted, loading ends, and the controller is in the proof step of the
\* same level with the staged file still selected.
C13_UploadFailureAborts ==
    [][(FetchRejects /\ pc = "swp_upload") =>
          /\ runs' = runs
          /\ pc' = "idle" /\ ~loading'
          /\ ProofStep' /\ challenge' = challenge /\ runId' = runId
          /\ file /\ file' = file]_vars

\* after a failure the controller is at rest in the proof step, the file
\* staged and the level's step not yet submitted
C13_Witness ==
    /\ fails >= 1 /\ pc = "idle" /\ handler = "none" /\ rid = runId
    /\ ProofStep /\ file
    /\ runs[runId].pending = challenge /\ runs[runId].proofPending
    /\ Len(runs[runId].steps) = challenge - 1

\* C14: when a terminal action of the summary page (delete or post) completes
\* and the page leaves for the feed, both current_run_id and last_run_id
\* have been removed from local storage (so that the next visit to the
\* challenge page creates a run).  Violated by handlePost, which removes
\* neither key.
C14_TerminalActionClearsKeys ==
    [][(pc \in {"sum_delete", "sum_finish"} /\ page = "summary" /\ page' = "feed") =>
          (ls_current_run_id' = 0 /\ ls_last_run_id' = 0)]_vars

\* the half of C14 that holds: after delete both keys are removed
C14_DeleteClearsKeys ==
    [][(pc = "sum_delete" /\ page' = "feed") =>
          (ls_current_run_id' = 0 /\ ls_last_run_id' = 0)]_vars

\* the run stored under current_run_id is active on the server
CurrentRunActive ==
    /\ ls_current_run_id # 0
    /\ runs[ls_current_run_id].exists
    /\ ~runs[ls_current_run_id].finished

\* C15: local storage never holds a current_run_id for an active run
\* together with a last_run_id.  Violated once POST finish has been answered
\* with an error status: finalizeRun stores last_run_id for a run that is
\* not finished, and the next init keeps it and creates a run.
C15_OneKeyMeaningful == ~(CurrentRunActive /\ ls_last_run_id # 0)

\* with a run service that serves every finish call (Spec) the two keys are
\* never stored together at all
C15_NeverBothKeys == ~(ls_current_run_id # 0 /\ ls_last_run_id # 0)

\* C16: once a user_id is in local storage no step changes or removes it,
\* and every resolution of the identity by the feed page (viewerId) returns
\* the stored value, whichever page stored it.
C16_IdentityStable ==
    [][/\ ls_user_id # 0 => ls_user_id' = ls_user_id
       /\ (ls_user_id # 0 /\ viewerId' # 0) => viewerId' = ls_user_id]_vars

\* the challenge page has been opened, and the feed page opened after it has
\* resolved the identity from storage
C16_Witness ==
    /\ page = "feed" /\ handler = "init"
    /\ viewerId # 0 /\ viewerId = ls_user_id
    /\ initialLoadRef

\* where a transition's handler awaits one of its requests
TransitionPcs == {"to_finish", "to_submit", "lns_get", "gu_finish",
                  "sc_submit", "sp_submit", "swp_upload", "swp_submit"}

\* a request of a transition has been sent and is not answered yet
TransitionRequestOutstanding == proofReq # 0 \/ pc \in TransitionPcs

\* this step begins a transition: Done sends set-proof-state, or a handler
\* of another transition starts and sends its first request
TransitionBegins ==
    \/ proofReq' # 0 /\ proofReq' # proofReq
    \/ pc' \in TransitionPcs /\ pc \notin TransitionPcs

\* C17: no transition begins while a request of a previous transition is
\* outstanding.  Violated: handleDone sends set-proof-state without awaiting
\* it and without loading, so the proof step's buttons start the next
\* transition while that request is still outstanding.
C17_TransitionsSerialized ==
    [][TransitionBegins => ~TransitionRequestOutstanding]_vars

\* what the timer shows: Math.max(0, timeLeft)
displayTimeLeft == IF timeLeft > 0 THEN timeLeft ELSE 0

\* the seconds left of the pending level by the wall clock, not below 0
WallClockLeft(run) ==
    LET remaining == computeRemaining(run.pendingAge, PendingTimeLimit(run))
    IN IF remaining > 0 THEN remaining ELSE 0

\* the timer is shown for the pending level of the run, and the model's
\* elapsed time is exact (below MaxElapsed)
TimerShown ==
    /\ TimerStep /\ pc = "idle" /\ runId # 0
    /\ runs[runId].pending = challenge
    /\ runs[runId].pendingAge < MaxElapsed

\* C18: whenever the timer is shown and its interval callback has just run
\* (ticks are running, the tab is in the foreground), the countdown equals
\* pendingTimeLimit minus the seconds elapsed since pendingStartedAt.
\* Violated: a second that passed without an interval callback is never
\* made up for, the callback only subtracts one from timeLeft.
C18_WallClockCountdown ==
    [][(Tick /\ TimerShown') => displayTimeLeft' = WallClockLeft(runs'[runId])]_vars

\* C19: the interval callback decrements timeLeft, and the timer effect
\* starts the timeout transition, only on a page that is not loading, has a
\* challenge and does not show the proof step.
C19_TimerGate ==
    [][(Tick \/ (handler' = "timeout" /\ handler # "timeout")) =>
          (page = "challenge" /\ ~loading /\ challenge # 0 /\ ~showUploadStep)]_vars

\* level 1 went through the proof step, where the timer stood still at 0;
\* the timer of level 2 then ran down and started the timeout transition
C19_Witness ==
    /\ handler = "timeout" /\ pc = "to_submit" /\ loading
    /\ challenge = 2 /\ timeLeft = 0 /\ ~showUploadStep
    /\ rid = runId /\ Len(runs[rid].steps) = 1
    /\ runs[rid].steps[1].completed

\* C20: at most one preview object URL created by the controller is
\* unreleased at any time.  Violated: handleFile creates the URL of the new
\* selection and does not revoke the one it replaces.
C20_OnePreviewUrl == objectUrls <= 1

\* the URLs that are unreleased apart from the preview of the staged file
\* are never released while the page lives
C20_LeakStays ==
    [][(page' = page /\ pc' # "init_levels" /\ objectUrls > (IF file THEN 1 ELSE 0))
          => objectUrls' > (IF file' THEN 1 ELSE 0)]_vars

\* C21: when the controller is torn down with a preview staged, the
\* preview's object URL is released.  Violated: the cleanup holds the
\* preview of the first render (null) and revokes nothing.
C21_TeardownReleasesPreview ==
    [][(page = "challenge" /\ page' = "home" /\ file) =>
          objectUrls' = objectUrls - 1]_vars

\* C22: the run controller leaves for the summary view only when finalize
\* has happened for its run: last_run_id holds the run's id and
\* current_run_id is absent.  Violated on the paths that run in init's
\* closure, where finalizeRun() finds runId null and returns.
C22_FinalizeBeforeSummary ==
    [][(page = "challenge" /\ page' = "summary") =>
          (ls_last_run_id' = runId' /\ runId' # 0 /\ ls_current_run_id' = 0)]_vars

\* C23: when init's fetch of the stored last_run_id is answered, a run the
\* server reports finished sends the controller to the summary view, init
\* ends there and no run is created; a fetch that returns null removes
\* last_run_id and init goes on to resolve the current run.
C23_LastRunCheck ==
    [][(pc = "init_last" /\ pc' \notin {"init_last", "init_levels"}) =>
          IF fails' = fails /\ runs[rid].finished
          THEN /\ page' = "summary" /\ handler' = "none" /\ pc' = "idle"
               /\ runs' = runs
               /\ ls_last_run_id' = ls_last_run_id
          ELSE IF fails' > fails
          THEN /\ ls_last_run_id' = 0
               /\ page' = "challenge" /\ handler' = "init"
               /\ pc' \in {"init_cur", "init_create"}
          ELSE handler' = "init"]_vars

\* init has redirected to the summary of a run given up at its first level:
\* the timer reads 0 (give up leaves it above 0) and no other run exists
C23_Witness ==
    /\ page = "summary" /\ pc = "idle" /\ handler = "none"
    /\ runId # 0 /\ ls_last_run_id = runId /\ ls_current_run_id = 0
    /\ runs[runId].finished /\ runs[runId].steps = <<>>
    /\ runs[runId].skips = 0 /\ timeLeft = 0
    /\ \A r \in RunIds : r # runId => ~runs[r].exists

\* C24: when init's fetch of the stored current_run_id returns null, the key
\* is removed, the stale id is not adopted (runId stays unset) and POST
\* /runs follows; the id of the run it creates is stored as current_run_id
\* and becomes the active run.  The controller never adopts an id that init
\* has discarded.
C24_StaleCurrentRun ==
    [][/\ (pc = "init_cur" /\ pc' \notin {"init_cur", "init_levels"} /\ fails' > fails) =>
              /\ ls_current_run_id' = 0 /\ runId' = 0
              /\ handler' = "init" /\ pc' = "init_create"
       /\ (pc = "init_create" /\ pc' = "init_get") =>
              /\ ~runs[runId'].exists /\ runs'[runId'] = SrvCreate
              /\ ls_current_run_id' = runId'
       /\ (runId' # 0 /\ runId' # runId) => runs'[runId'] # Unreachable]_vars

\* init has discarded the stored run 1, which was never finalized, and has
\* created and stored run 2
C24_Witness ==
    /\ handler = "init" /\ pc = "init_get" /\ fails >= 1
    /\ runs[1] = Unreachable /\ finalized[1] = 0
    /\ ls_current_run_id = 2 /\ runId = 2 /\ ls_last_run_id = 0
    /\ runs[2] = SrvCreate

\* C25: init removes the stored current_run_id only when the server has no
\* record of the run.  Violated: fetchRunState returns null for a failed
\* fetch as well, and init discards the id of a run the server still holds
\* as active.
C25_TransientFailureKeepsRun ==
    [][(pc = "init_cur" /\ pc' = "init_create") => ~runs[rid].exists]_vars

\* the position of init: its awaits in program order, then what it calls
InitStage(at) ==
    CASE at = "init_levels" -> 1
      [] at = "init_last" -> 2
      [] at = "init_cur" -> 3
      [] at = "init_create" -> 4
      [] at = "init_get" -> 5
      [] OTHER -> 6

\* the runs a step creates on the server
CreatedRuns == {r \in RunIds : ~runs[r].exists /\ runs'[r].exists}

\* C26: one execution of init issues at most one create-run request: a run
\* is created only by the answer to init's POST /runs, one run per answer,
\* and init never moves back to an earlier await.  No run is created when
\* storage holds a current_run_id, and none after the stored id was fetched
\* as an unfinished run.  The created id is in current_run_id, and is the
\* active run, in the state the creation leaves.
C26_OneCreatePerInit ==
    [][/\ (CreatedRuns # {}) =>
              /\ handler = "init" /\ pc = "init_create" /\ pc' = "init_get"
              /\ ls_current_run_id = 0
              /\ CreatedRuns = {runId'}
              /\ runs'[runId'] = SrvCreate
              /\ ls_current_run_id' = runId'
       /\ (handler = "init" /\ handler' = "init" /\ pc' # "init_levels") =>
              InitStage(pc') >= InitStage(pc)
       /\ (/\ pc = "init_cur" /\ pc' \notin {"init_cur", "init_levels"}
           /\ fails' = fails /\ runs[rid].exists /\ ~runs[rid].finished) =>
              /\ InitStage(pc') = 6 /\ runs' = runs
              /\ runId' = rid /\ ls_current_run_id' = rid]_vars

\* init has created the first run and stored its id; no other run exists
C26_Witness ==
    /\ handler = "init" /\ pc = "init_get" /\ fails = 0
    /\ runId = 1 /\ ls_current_run_id = 1 /\ runs[1] = SrvCreate
    /\ \A r \in RunIds : r # 1 => ~runs[r].exists

\* the positions of handleTimeout
TimeoutPcs == {"to_finish", "to_submit"}

\* C27: the timeout transition is never started, by init or by the timer
\* effect, for a level that has no seconds_limit.  Violated: computeRemaining
\* returns 0 when the limit is null, which init takes for time run out, and
\* loadNextRunState turns into one second on the timer.
C27_UnlimitedNeverTimesOut ==
    [][(pc' \in TimeoutPcs /\ pc \notin TimeoutPcs) =>
          SecondsLimit(challenge') # 0]_vars

\* C28: when loadNextRunState has fetched an unfinished run and shows its
\* pending level, it leaves the proof and timer state that init derives from
\* the same run state: the proof step with the timer at 0 when proof is
\* pending; the timeout transition, and no timer, when the remaining time is
\* 0 or less; otherwise the timer at the remaining time.  Violated: with a
\* remaining time of 0 or less loadNextRunState shows the timer at 1.
C28_LoadNextDerivesAsInit ==
    [][(LoadNextRunState /\ ~runs[rid].finished /\ challenge' # 0) =>
          LET run == runs[rid]
              remaining == computeRemaining(run.pendingAge, PendingTimeLimit(run))
          IN IF run.proofPending
             THEN showUploadStep' /\ timeLeft' = 0 /\ ~loading' /\ pc' = "idle"
             ELSE IF InitExpired(remaining)
             THEN pc' \in TimeoutPcs /\ loading' /\ ~TimerStep'
             ELSE /\ ~showUploadStep' /\ timeLeft' = remaining
                  /\ ~loading' /\ pc' = "idle"]_vars

\* the awaits whose answer is the run state the challenge is derived from
DerivePcs == {"init_cur", "init_get", "lns_get"}

\* C29: whenever init or loadNextRunState is answered with an unfinished run
\* whose pending level is in the catalog, the challenge becomes that level.
\* Violated: the loadNextRunState that init's handleTimeout calls looks the
\* level up in the `levels` of the first render, which is empty, so without
\* an embedded pending_level the challenge becomes null.
C29_ChallengeIsPendingLevel ==
    [][(/\ pc \in DerivePcs /\ pc' \notin {pc, "init_levels"} /\ fails' = fails
        /\ runs[rid].exists /\ ~runs[rid].finished
        /\ runs[rid].pending \in LevelIds) =>
          challenge' = runs[rid].pending]_vars

\* C30: a step that starts Skip challenge is taken with a skip left, and a
\* step that starts Submit with proof is taken with a file staged; without
\* them nothing is sent and no state changes, since no step of either
\* handler exists.  Every request handleSubmitWithProof has in flight
\* belongs to a staged file.
C30_PreconditionNoOps ==
    [][/\ (handler' = "skipChallenge" /\ handler # "skipChallenge") =>
              (~SkipChallengeNoBudget /\ pc' = "sc_submit")
       /\ (handler' = "submitWithProof" /\ handler # "submitWithProof") =>
              (file /\ pc' = "swp_upload")
       /\ pc' \in {"swp_upload", "swp_submit"} => file']_vars

\* the proof step with no file staged and no skip left: neither Skip
\* challenge nor Submit with proof can act
C30_Witness ==
    /\ CanClickProofStep /\ ~file /\ SkipChallengeNoBudget
    /\ runs[runId].proofPending /\ runs[runId].skips = skipsUsed

\* every run id of the model is in use: POST /runs cannot be answered
RunsExhausted == \A r \in RunIds : runs[r].exists

\* the page has just been opened or reloaded: a new init has started
Remounted == page = "challenge" /\ pc = "init_levels"

\* C31: whenever the challenge page is loading, it later is not, unless
\* the user leaves or reloads the page first (or the model has run out of
\* run ids).  Violated: outside
\* handleSubmitWithProof no handler catches a rejected fetch, so the handler
\* never resumes and loading stays set.
C31_LoadingEnds ==
    (page = "challenge" /\ loading) ~>
        (~loading \/ page # "challenge" \/ Remounted \/ RunsExhausted)

\* no like request for run r is outstanding, of this page or an earlier one
NoLikeOutstanding(r) == \A k \in DOMAIN likeReqs : likeReqs[k].run_id # r

\* C32: when no like request has failed, a toggle of a run has succeeded and
\* none is outstanding for it, the run's liked_by_viewer is the server's.
\* Violated: each response overwrites the run with the values it carries, so
\* the response that arrives last wins, whichever request the server
\* handled last.
C32_ServerWins ==
    \A i \in DOMAIN items :
        LET r == items[i].run_id IN
        (/\ page = "feed" /\ fails = 0
         /\ likeGhost[r].set /\ ~likeGhost[r].clean
         /\ NoLikeOutstanding(r)) =>
            items[i].liked_by_viewer = srvLiked[r]

\* comment_count of run r as the feed shows it; 0 when r is not loaded
ShownCommentCount(list, r) ==
    IF \E i \in DOMAIN list : list[i].run_id = r
    THEN (CHOOSE item \in {list[i] : i \in DOMAIN list} : item.run_id = r).comment_count
    ELSE 0

\* C33: POST comments is sent only with a viewer id and with content that is
\* non-empty after trimming, and carries the trimmed content.  When it
\* succeeds for the open sheet, one comment is appended to the list, the
\* run's comment_count is one more, every other run's is unchanged and no
\* GET comments is sent.  When it fails, the list, the input and every
\* comment_count are unchanged.
C33_PostComment ==
    [][/\ (commentReq.run_id = 0 /\ commentReq'.run_id # 0) =>
              /\ viewerId # 0 /\ trim(input) # <<>>
              /\ \E k \in DOMAIN input : input[k] # " "
              /\ commentReq'.content = trim(input)
              /\ Head(commentReq'.content) # " "
              /\ commentReq'.content[Len(commentReq'.content)] # " "
       /\ (CommentPosted /\ ~commentReq.stale) =>
              /\ Len(comments') = Len(comments) + 1
              /\ SubSeq(comments', 1, Len(comments)) = comments
              /\ \A r \in RunIdsOf(items) :
                    ShownCommentCount(items', r) =
                        ShownCommentCount(items, r)
                          + (IF r = commentReq.run_id THEN 1 ELSE 0)
              /\ RunIdsOf(items') = RunIdsOf(items)
              /\ commentsReq' = commentsReq
       /\ (CommentFails /\ ~commentReq.stale) =>
              /\ comments' = comments /\ input' = input /\ items' = items]_vars

\* a comment has been posted from the open sheet and answered: the sheet
\* lists it, the input is empty and the feed counts it
C33_Witness ==
    /\ sheetRunId # 0 /\ commentReq = NoCommentReq /\ ~submitting
    /\ Len(comments) = 1 /\ input = <<>>
    /\ srvComments[sheetRunId] = 1
    /\ ShownCommentCount(items, sheetRunId) = 1

\* C34: whenever the observer's callback sets visibleIndex, no card has a
\* greater intersection ratio than the card at visibleIndex.  Violated: the
\* callback sees only the entries delivered to it, the cards whose
\* intersection has just changed, and takes the greatest among those.
C34_MostVisibleOfAll ==
    [][((Scroll \/ ObserverCreated) /\ visibleIndex' # visibleIndex) =>
          \A idx \in Cards :
              Ratio(idx, scrollPos') <= Ratio(visibleIndex', scrollPos')]_vars
\* C35: once the effects of the last render have run, a video plays only
\* on the centered page of the carousel of the card at visibleIndex, so at
\* most one video of the feed plays.
C35_OneVideoPlays ==
    EffectsFlushed =>
        \A c \in VideoCardIds, idx \in Pages :
            videoPlaying[c][idx] =>
                /\ c \in MountedCards
                /\ idx = selectedIndex[c] /\ autoPlayActive(c)

\* the card at visibleIndex is not the first, its carousel has been swiped
\* and its centered video plays unmuted after a press-and-hold, and the
\* first card's carousel has run its effect as the visible card and as a
\* card out of view
C35_Witness ==
    /\ EffectsFlushed /\ visibleIndex = 2
    /\ selectedIndex[2] = 1 /\ videoPlaying[2][1] /\ ~muteMap[2][1]
    /\ <<2, 1>> \in suppressClickRef /\ holdActiveRef = {}
    /\ effectDeps[0] = <<1, FALSE>> /\ ~muteMap[0][1]
\* C36: the step list of the summary page never has more than one cover
\* step, and when a set-cover request fails the flag of its step becomes
\* false and the flag of no other step changes.
C36_OneCover ==
    /\ Cardinality(CoverSteps(steps)) <= 1
    /\ [][/\ Cardinality(CoverSteps(steps')) <= 1
          /\ \A k \in 1..MaxCoverReqs :
                CoverFails(k) =>
                    /\ DOMAIN steps' = DOMAIN steps
                    /\ \A i \in DOMAIN steps :
                          steps'[i].is_cover =
                              (steps[i].is_cover /\ steps[i].id # coverReqs[k])]_vars

\* the default cover was requested and set on the server, the user's later
\* choice of another step failed and was rolled back: no step is shown as
\* cover
C36_Witness ==
    /\ sumRunId # 0 /\ Len(steps) = MaxSteps
    /\ defaultCoverAttempted /\ coverReqs = <<>>
    /\ srvCover = 1 /\ CoverSteps(steps) = {}
\* a feed page request is sent in this step
FeedRequestSent == feedInFlight' = feedInFlight + 1

\* the request for the initial batch
InitialRequest == [limit |-> INITIAL_BATCH, offset |-> 0]

\* C37: a feed request is sent only with a viewer id; the step that sets
\* initialLoadRef sends the request for the initial batch, no other step
\* sends a request at offset 0, and the ref stays set until the next mount.
C37_InitialBatchOnce ==
    [][/\ FeedRequestSent => viewerId # 0 /\ viewerId' = viewerId
       /\ (~initialLoadRef /\ initialLoadRef') =>
              FeedRequestSent /\ feedReq' = InitialRequest
       /\ (FeedRequestSent /\ feedReq'.offset = 0) =>
              ~initialLoadRef /\ initialLoadRef'
       /\ (initialLoadRef /\ ~initialLoadRef') =>
              viewerId' = 0 /\ items' = <<>> /\ feedReq' = NoReq]_vars

\* the page was mounted again after a failed page fetch; its identity is
\* resolved and its own initial batch is requested
C37_Witness ==
    /\ page = "feed" /\ viewerId # 0 /\ initialLoadRef
    /\ feedReq = InitialRequest /\ feedInFlight = 1
    /\ fails > 0 /\ items = <<>>
\* a page fetch has failed, the feed has more, no request is in flight and
\* fewer items are loaded than the visible card asks for
RetryWanted ==
    /\ page = "feed" /\ viewerId # 0 /\ initialLoadRef
    /\ fails > 0 /\ hasMore /\ feedReq = NoReq
    /\ Len(items) < DesiredTotal(visibleIndex)

\* a page request at the offset of the page
RetrySent == feedReq # NoReq /\ feedReq.offset = offset

\* C38: after a failed page fetch that left hasMore true, the failed initial
\* load with no item included, a new page request at the unchanged offset
\* follows.  Violated: with no item loaded nothing asks again.
C38_RetryAfterFailure == RetryWanted ~> RetrySent
====
